---- MODULE Spec2Model ----
(***************************************************************************)
(* Geometry and spatial-profile engine of UbermagGUI.                      *)
(*                                                                         *)
(*   src/src/dep/custom_system_properties.py  SubRegion, MyRegions,        *)
(*        merge_regions, subdivide_region_new, subdivide_region,           *)
(*        add_inter_subregion_values                                       *)
(*   src/dep/damping_absorbing_region.py      the profile classes,         *)
(*        CompositeAlpha, CompositeFieldStrength                           *)
(*                                                                         *)
(* Numbers.  The code computes with float64.  The model computes with      *)
(* exact fixed-point numbers:                                              *)
(*   - a coordinate or length is an integer number of fine units, with     *)
(*     FineUnits fine units per 1e-10 (so that values lying between two    *)
(*     points of the grid that round(x, 10) rounds to can be written);     *)
(*   - an interpolated value is a rational [n, d] counted in value units,  *)
(*     with FineUnits * 10^4 value units per 1.0, so that round(v, 4)      *)
(*     rounds to multiples of FineUnits;                                   *)
(*   - round(...) is round-half-to-even, as Python and numpy round.        *)
(* Every modelled coordinate is a sub-metre length (far below 1.0).        *)
(***************************************************************************)
EXTENDS Integers, Sequences, FiniteSets, TLC

VARIABLES
    details,      \* MyRegions._details of the caller's container: name -> SubRegion
    mesh,         \* the caller's df.Mesh: [region, cell, subregions]
    call,         \* the arguments of the last call
    pre,          \* the container (or mesh subregions) as it was before the last call
    outcome,      \* how the last call ended: "none", "ok", "ValueError", "KeyError"
    returned,     \* what the last call returned (None when it raised)
    regions,      \* the MyRegions objects handed to merge_regions: [name, _details, _mesh]
    stdout,       \* the lines printed so far
    composite     \* the CompositeAlpha / CompositeFieldStrength object

vars == <<details, mesh, call, pre, outcome, returned, regions, stdout, composite>>

None == [none |-> TRUE]

----------------------------------------------------------------------------
(* Bounds of the model *)

FineUnits == 4
\* largest n_subdivisions drawn
MaxN == 4

----------------------------------------------------------------------------
(* Arithmetic helpers *)

Abs(x) == IF x < 0 THEN 0 - x ELSE x

\* floor division for any sign of n (d > 0)
FloorDiv(n, d) == IF n >= 0 THEN n \div d ELSE 0 - ((0 - n + d - 1) \div d)

\* round(n/d) to the nearest integer, ties to the even one: Python's round()
\* and numpy's around() on a float
RoundHalfEven(n, d) ==
    LET q == FloorDiv(n, d)
        r == n - q * d
    IN  IF 2 * r < d THEN q
        ELSE IF 2 * r > d THEN q + 1
        ELSE IF q % 2 = 0 THEN q ELSE q + 1

\* fine units between two neighbouring values of round(x, p) on coordinates
Grid(p) == FineUnits * 10 ^ (10 - p)

\* round(n/d, p) of a coordinate n/d counted in fine units, in fine units
RoundCoord(n, d, p) == Grid(p) * RoundHalfEven(n, d * Grid(p))

\* rationals [n, d] with d > 0
Rat(n, d) == [n |-> n, d |-> d]
RatEq(a, b) == a.n * b.d = b.n * a.d

\* greatest common divisor of a >= 0 and b > 0
RECURSIVE Gcd(_, _)
Gcd(a, b) == IF a = 0 THEN b ELSE Gcd(b % a, a)

\* n/d in lowest terms
Reduced(n, d) == LET g == Gcd(Abs(n), d) IN Rat(n \div g, d \div g)

\* round(v, p) of a value v, as a rational in value units: to multiples of
\* FineUnits * 10^(4 - p) value units
RoundValue(v, p) ==
    IF p <= 4
    THEN LET g == FineUnits * 10 ^ (4 - p)
         IN  Rat(g * RoundHalfEven(v.n, v.d * g), 1)
    ELSE Rat(FineUnits * RoundHalfEven(v.n * 10 ^ (p - 4), v.d * FineUnits), 10 ^ (p - 4))

\* np.linspace(start, stop, num)[i], num >= 1: start + i * (stop - start)/(num - 1)
Linspace(start, stop, num, i) ==
    IF num = 1 THEN Rat(start, 1)
    ELSE Rat(start * (num - 1) + i * (stop - start), num - 1)

----------------------------------------------------------------------------
(* Names.  A key is a string; the code builds the names of pieces with     *)
(* f-strings.  A name is modelled as the f-string's parts: root (the       *)
(* tokens of the prefix), sep (the text between prefix and index) and idx  *)
(* (the index, or -1 for a plain key such as "main").                      *)

Key(s) == [root |-> <<s>>, sep |-> "", idx |-> 0 - 1]
FName(root, sep, i) == [root |-> root, sep |-> sep, idx |-> i]

\* axis_to_index = {'x': 0, 'y': 1, 'z': 2}, 1-based in the model
axis_to_index == [x |-> 1, y |-> 2, z |-> 3]
Axes == {"x", "y", "z"}

\* rnd_precision = 10 in subdivide_region
rnd_precision == 10
G == Grid(rnd_precision)

\* an optional argument: <<>> is None, <<v>> is the value v
NoArg == <<>>
Arg(v) == <<v>>

----------------------------------------------------------------------------
(* Ordered dicts: a Python dict as the sequence of its <<key, value>>       *)
(* items in insertion order.                                                *)

DictKeys(d) == {d[i][1] : i \in 1..Len(d)}
DictHas(d, k) == \E i \in 1..Len(d) : d[i][1] = k
DictGet(d, k) == d[CHOOSE i \in 1..Len(d) : d[i][1] = k][2]
\* d[k] = v: a new key goes last, a known key keeps its place
DictSet(d, k, v) ==
    IF DictHas(d, k) THEN [i \in 1..Len(d) |-> IF d[i][1] = k THEN <<k, v>> ELSE d[i]]
    ELSE Append(d, <<k, v>>)
\* del d[k]
DictDel(d, k) == SelectSeq(d, LAMBDA item : item[1] # k)

----------------------------------------------------------------------------
(* SubRegion *)

\* all(np.asarray(pmin) < np.asarray(pmax))
Ordered(pmin, pmax) == \A k \in 1..3 : pmin[k] < pmax[k]

\* SubRegion(name=..., p1=..., p2=...): __post_init__ then create_region.
\* int_pmin: every entry of p1 is a Python int (np.array(pmin) has an
\* integer dtype). cell: _cellsize, () unless the caller set it.
SubRegionRec(name, p1, p2, int_p1, cellsize) ==
    [name |-> name, pmin |-> p1, pmax |-> p2, int_pmin |-> int_p1, cell |-> cellsize]

\* create_region raises ValueError unless pmin < pmax on every axis
create_region_ok(p1, p2) == Ordered(p1, p2)

----------------------------------------------------------------------------
(* MyRegions *)

\* MyRegions.add_subregion on _details = det: KeyError when the name is taken
add_subregion(det, new_subregion) ==
    IF DictHas(det, new_subregion.name)
    THEN [error |-> "KeyError", details |-> det]
    ELSE [error |-> "", details |-> DictSet(det, new_subregion.name, new_subregion)]

\* MyRegions.delete_subregion on _details = det: KeyError when the name is absent
delete_subregion(det, region_name) ==
    IF DictHas(det, region_name)
    THEN [error |-> "", details |-> DictDel(det, region_name)]
    ELSE [error |-> "KeyError", details |-> det]

----------------------------------------------------------------------------
(* subdivide_region *)

\* numpy's default rtol of np.isclose, in millionths (1e-5)
RtolMicro == 10

\* np.isclose(ratio, round(ratio), atol=tol) for ratio = new_length/cell_size:
\* |ratio - round(ratio)| <= atol + rtol * |round(ratio)|, tol in millionths
IsCloseToInteger(new_length, cell_size, tolMicro) ==
    LET r == RoundHalfEven(new_length, cell_size)
    IN  Abs(new_length - cell_size * r) * 1000000
            <= cell_size * (tolMicro + RtolMicro * Abs(r))

\* an element assigned into np.array(pmin): an integer array truncates the
\* float toward zero, and every modelled coordinate is below 1.0
StoreInto(is_int, v) == IF is_int THEN 0 ELSE v

\* boundaries[i], i = 0..total, as rationals in fine units (lines 609-620)
Boundaries(a, parent_length) ==
    IF a.partition_distances # NoArg
    THEN LET pd == a.partition_distances[1]
         IN  [i \in 0..(Len(pd) + 1) |->
                 IF i = 0 THEN Rat(0, 1)
                 ELSE IF i = Len(pd) + 1 THEN Rat(parent_length, 1)
                 ELSE Rat(pd[i], 1)]
    ELSE LET n == a.n_subdivisions[1]
         IN  [i \in 0..n |-> Rat(i * parent_length, n)]

\* the ValueErrors raised before the loop (lines 593-620)
ArgumentError(a) ==
    LET idx == axis_to_index[a.axis]
        parent_length == a.main_region.pmax[idx] - a.main_region.pmin[idx]
    IN  \/ a.axis \notin Axes
        \/ /\ a.partition_distances # NoArg
           /\ \E k \in 1..Len(a.partition_distances[1]) :
                 \/ a.partition_distances[1][k] < 0
                 \/ a.partition_distances[1][k] > parent_length
        \/ a.partition_distances = NoArg /\ a.n_subdivisions = NoArg

\* subregion_name_root, defaulting to parent_name + "_sub" (lines 603-606)
NameRoot(a) ==
    IF a.subregion_name_root # NoArg THEN a.subregion_name_root[1]
    ELSE Append(a.main_region.name.root, "_sub")

\* cell_available (line 631)
CellAvailable(main_region) ==
    /\ main_region.cell # <<>>
    /\ main_region.cell[1] + main_region.cell[2] + main_region.cell[3] > 0

\* the piece the loop builds at index i: its corners (lines 637-642)
PieceCorners(a, i) ==
    LET idx == axis_to_index[a.axis]
        m == a.main_region
        b == Boundaries(a, m.pmax[idx] - m.pmin[idx])
        lo == StoreInto(m.int_pmin,
                  RoundCoord(m.pmin[idx] * b[i].d + b[i].n, b[i].d, rnd_precision))
        hi == RoundCoord(m.pmin[idx] * b[i + 1].d + b[i + 1].n, b[i + 1].d, rnd_precision)
    IN  [pmin |-> [m.pmin EXCEPT ![idx] = lo],
         pmax |-> [m.pmax EXCEPT ![idx] = hi]]

\* the discretisation check of one piece (lines 646-652): TRUE when it raises
PieceNotDiscretisable(a, i) ==
    LET idx == axis_to_index[a.axis]
        c == PieceCorners(a, i)
    IN  /\ a.compatible_discretisation
        /\ CellAvailable(a.main_region)
        /\ ~IsCloseToInteger(c.pmax[idx] - c.pmin[idx], a.main_region.cell[idx],
                             a.discretisation_tol)

\* round(interp_values[i], 4) (lines 627, 659)
PieceValue(a, total, i) == RoundValue(Linspace(a.value_min, a.value_max, total, i), 4)

\* the loop of lines 636-659 from index i on, the container being det and the
\* value_dict vd: it ends by raising or by running out of pieces
RECURSIVE SubdivideLoop(_, _, _, _, _)
SubdivideLoop(a, total, i, det, vd) ==
    IF i = total THEN [error |-> "", why |-> "", details |-> det, value_dict |-> vd]
    ELSE
      LET c == PieceCorners(a, i)
          subregion_name == FName(NameRoot(a), "", i)
          new_subregion == SubRegionRec(subregion_name, c.pmin, c.pmax,
                                        a.main_region.int_pmin, <<>>)
      IN  IF PieceNotDiscretisable(a, i)
          THEN [error |-> "ValueError", why |-> "not discretisable",
                details |-> det, value_dict |-> vd,
                failed |-> FName(NameRoot(a), "_", i),
                length |-> c.pmax[axis_to_index[a.axis]] - c.pmin[axis_to_index[a.axis]]]
          ELSE IF ~create_region_ok(c.pmin, c.pmax)
          THEN [error |-> "ValueError", why |-> "pmin not smaller than pmax",
                details |-> det, value_dict |-> vd]
          ELSE IF add_subregion(det, new_subregion).error # ""
          THEN [error |-> "KeyError", why |-> "already exists",
                details |-> det, value_dict |-> vd]
          ELSE SubdivideLoop(a, total, i + 1,
                             add_subregion(det, new_subregion).details,
                             DictSet(vd, subregion_name, PieceValue(a, total, i)))

\* subdivide_region(regions, main_region, ...): the container it leaves, the
\* error it raises ("" when it returns) and the value_dict it returns
subdivide_region(det, a) ==
    IF ArgumentError(a)
    THEN [error |-> "ValueError", why |-> "argument", details |-> det,
          value_dict |-> <<>>]
    ELSE
      LET idx == axis_to_index[a.axis]
          b == Boundaries(a, a.main_region.pmax[idx] - a.main_region.pmin[idx])
          total == Cardinality(DOMAIN b) - 1
          looped == SubdivideLoop(a, total, 0, det, <<>>)
      IN  IF looped.error # "" THEN looped
          ELSE IF ~a.remove_parent THEN looped
          ELSE [looped EXCEPT
                  !.error = delete_subregion(looped.details, a.parent_key).error,
                  !.why = IF delete_subregion(looped.details, a.parent_key).error = ""
                          THEN "" ELSE "does not exist",
                  !.details = delete_subregion(looped.details, a.parent_key).details]

----------------------------------------------------------------------------
(* subdivide_region_new *)

\* the precision of round(pmin[idx] + d, 9) in subdivide_region_new
new_precision == 9
H == Grid(new_precision)

\* df.Region(p1=..., p2=...): the corners sorted per axis; ValueError when an
\* edge has length zero
DfRegion(p1, p2) ==
    IF \E k \in 1..3 : p1[k] = p2[k] THEN [error |-> "ValueError"]
    ELSE [error |-> "",
          region |-> [pmin |-> [k \in 1..3 |-> IF p1[k] < p2[k] THEN p1[k] ELSE p2[k]],
                      pmax |-> [k \in 1..3 |-> IF p1[k] < p2[k] THEN p2[k] ELSE p1[k]]]]

\* abs(length/cell - round(length/cell)) > discretisation_tol (line 521)
NotMultipleOfCell(length, cell, tolMicro) ==
    Abs(length - cell * RoundHalfEven(length, cell)) * 1000000 > cell * tolMicro

\* the ValueErrors raised before the loop (lines 466-484)
NewArgumentError(a) ==
    LET idx == axis_to_index[a.axis]
        length == a.region.pmax[idx] - a.region.pmin[idx]
    IN  \/ a.axis \notin Axes
        \/ /\ a.partition_distances # NoArg
           /\ \E k \in 1..Len(a.partition_distances[1]) :
                 \/ a.partition_distances[1][k] < 0
                 \/ a.partition_distances[1][k] > length
        \/ a.partition_distances = NoArg /\ a.n_subdivisions = NoArg

\* p1 and p2 of piece i (lines 514-519)
NewPieceCorners(a, i) ==
    LET idx == axis_to_index[a.axis]
        b == Boundaries(a, a.region.pmax[idx] - a.region.pmin[idx])
    IN  [p1 |-> [a.region.pmin EXCEPT ![idx] =
                    RoundCoord(a.region.pmin[idx] * b[i].d + b[i].n, b[i].d, new_precision)],
         p2 |-> [a.region.pmax EXCEPT ![idx] =
                    RoundCoord(a.region.pmin[idx] * b[i + 1].d + b[i + 1].n, b[i + 1].d,
                               new_precision)]]

\* new_subs before the loop (lines 495-509)
NewSubsStart(m, a) ==
    IF a.remove_parent
    THEN [k \in {j \in DOMAIN m.subregions : m.subregions[j] # a.region} |-> m.subregions[k]]
    ELSE m.subregions

\* the loop of lines 513-526 from index i on
RECURSIVE NewLoop(_, _, _, _, _, _)
NewLoop(m, a, N, i, new_subs, vd) ==
    IF i = N THEN [error |-> "", why |-> "", subregions |-> new_subs, value_dict |-> vd]
    ELSE
      LET idx == axis_to_index[a.axis]
          c == NewPieceCorners(a, i)
          name == FName(a.name_root, "_", i)
          sub == DfRegion(c.p1, c.p2)
      IN  IF NotMultipleOfCell(c.p2[idx] - c.p1[idx], m.cell[idx], a.discretisation_tol)
          THEN [error |-> "ValueError", why |-> "not multiple of cell",
                subregions |-> new_subs, value_dict |-> vd,
                length |-> c.p2[idx] - c.p1[idx]]
          ELSE IF sub.error # ""
          THEN [error |-> "ValueError", why |-> "region edge of length zero",
                subregions |-> new_subs, value_dict |-> vd]
          ELSE NewLoop(m, a, N, i + 1,
                       (name :> sub.region) @@ new_subs,
                       DictSet(vd, name, Linspace(a.value_min, a.value_max, N, i)))

\* subdivide_region_new(mesh, region, ...): the error it raises ("" when it
\* returns), and the subregions of new_mesh and the value_dict it returns
subdivide_region_new(m, a) ==
    IF NewArgumentError(a)
    THEN [error |-> "ValueError", why |-> "argument", subregions |-> m.subregions,
          value_dict |-> <<>>]
    ELSE
      LET idx == axis_to_index[a.axis]
          b == Boundaries(a, a.region.pmax[idx] - a.region.pmin[idx])
      IN  NewLoop(m, a, Cardinality(DOMAIN b) - 1, 0, NewSubsStart(m, a), <<>>)

----------------------------------------------------------------------------
(* Inputs of the subdivision specification *)

\* value units in 1.0
One == FineUnits * 10 ^ 4

\* cell sizes along x, y, z of the parents (on the 1e-10 grid)
ParentCell == <<2 * G, G, G>>

PMain == SubRegionRec(Key("main"), <<0, 0, 0>>, <<12 * G, 2 * G, 2 * G>>, FALSE, ParentCell)
\* corners between two points of the 1e-10 grid
POff == SubRegionRec(Key("main"), <<1, 0, 0>>, <<1 + 12 * G, 2 * G, 2 * G>>, FALSE, ParentCell)
\* p1 = (0, 0, 0), the integers
PInt == SubRegionRec(Key("main"), <<0, 0, 0>>, <<12 * G, 2 * G, 2 * G>>, TRUE, ParentCell)
\* no cell attribute set, and stored under its own name
PFilm == SubRegionRec(Key("film"), <<0, 0, 0>>, <<12 * G, 2 * G, 2 * G>>, FALSE, <<>>)
\* 100000.5 cells long
PLong == SubRegionRec(Key("main"), <<0, 0, 0>>, <<200001 * G, 2 * G, 2 * G>>, FALSE, ParentCell)
\* a piece of an earlier subdivision
PEarlier == SubRegionRec(FName(<<"sub">>, "", 1), <<0, 0, 0>>, <<G, G, G>>, FALSE, <<>>)

Parents == {PMain, POff, PInt, PFilm, PLong}

Containers ==
    {<< <<p.name, p>> >> : p \in Parents}
    \cup {<< <<PMain.name, PMain>>, <<PEarlier.name, PEarlier>> >>}

\* (value_min, value_max): 0 and 1; and two values between points of the 1e-4 grid
ValuePairs == {<<0, One>>, <<1, 1 + 3 * FineUnits>>}

\* discretisation_tol in millionths: the default 1e-6, and 0.3
Tolerances == {1, 300000}

PartitionLists ==
    {<<4 * G>>, <<2 * G, 5 * G>>, <<5 * G, 2 * G>>, <<6 * G, 2 * G>>, <<13 * G>>}

BoundsSpecs ==
    {[n_subdivisions |-> Arg(n), partition_distances |-> NoArg] : n \in 1..MaxN}
    \cup {[n_subdivisions |-> NoArg, partition_distances |-> Arg(pd)] : pd \in PartitionLists}

SubdivideArgsOf(main_region, key) ==
    { [fn |-> "subdivide_region",
       main_region |-> main_region,
       value_min |-> vp[1], value_max |-> vp[2],
       compatible_discretisation |-> cd,
       subregion_name_root |-> rt,
       n_subdivisions |-> bs.n_subdivisions,
       partition_distances |-> bs.partition_distances,
       axis |-> ax,
       remove_parent |-> rp,
       parent_key |-> pk,
       discretisation_tol |-> tol] :
      vp \in ValuePairs, cd \in BOOLEAN,
      rt \in {NoArg, Arg(<<"sub">>)}, bs \in BoundsSpecs, ax \in Axes,
      rp \in BOOLEAN, pk \in {Key("main"), key}, tol \in Tolerances }

\* main_region is a region of the container; parent_key is the default
\* "main" or the key the region is stored under
SubdivideArgs(det) == UNION {SubdivideArgsOf(det[i][2], det[i][1]) : i \in 1..Len(det)}

\* Meshes.  df.Mesh is the geometry library's: it accepts subregions that lie
\* in its region on whole cells, which is all the meshes and pieces below
\* ever give it (corners on the 1e-9 grid, pieces that passed the check).
MeshCell == <<2 * H, H, H>>
RWhole == [pmin |-> <<0, 0, 0>>, pmax |-> <<12 * H, 2 * H, 2 * H>>]
RPart == [pmin |-> <<0, 0, 0>>, pmax |-> <<4 * H, 2 * H, 2 * H>>]
RShifted == [pmin |-> <<2 * H, 0, 0>>, pmax |-> <<14 * H, 2 * H, 2 * H>>]

Meshes ==
    { [region |-> RWhole, cell |-> MeshCell,
       subregions |-> (Key("main") :> RWhole) @@ (Key("other") :> RPart)],
      [region |-> RShifted, cell |-> MeshCell,
       subregions |-> (Key("main") :> RShifted) @@ (FName(<<"sub">>, "_", 0) :> RShifted)] }

NewPartitionLists ==
    {<<4 * H>>, <<2 * H, 5 * H>>, <<5 * H, 2 * H>>, <<6 * H, 2 * H>>, <<13 * H>>}

NewBoundsSpecs ==
    {[n_subdivisions |-> Arg(n), partition_distances |-> NoArg] : n \in 1..MaxN}
    \cup {[n_subdivisions |-> NoArg, partition_distances |-> Arg(pd)] : pd \in NewPartitionLists}

SubdivideNewArgs(m) ==
    { [fn |-> "subdivide_region_new",
       region |-> m.subregions[k],
       value_min |-> vp[1], value_max |-> vp[2],
       n_subdivisions |-> bs.n_subdivisions,
       partition_distances |-> bs.partition_distances,
       axis |-> ax,
       name_root |-> <<"sub">>,
       remove_parent |-> rp,
       discretisation_tol |-> tol] :
      k \in DOMAIN m.subregions, vp \in ValuePairs, bs \in NewBoundsSpecs, ax \in Axes,
      rp \in BOOLEAN, tol \in Tolerances }

----------------------------------------------------------------------------
(* The subdivision specification: a container and a mesh are built, then    *)
(* one of the two subdivide functions is called on them once.               *)

NoCall == [fn |-> "none"]

InitSubdivide ==
    /\ details \in Containers
    /\ mesh \in Meshes
    /\ call = NoCall
    /\ pre = details
    /\ outcome = "none"
    /\ returned = None
    /\ regions = None
    /\ stdout = <<>>
    /\ composite = None

\* value_dict, regions = subdivide_region(regions, main_region, ...)
CallSubdivide ==
    /\ outcome = "none"
    /\ \E a \in SubdivideArgs(details) :
         LET r == subdivide_region(details, a)
         IN  /\ call' = a
             /\ pre' = details
             /\ details' = r.details
             /\ outcome' = IF r.error = "" THEN "ok" ELSE r.error
             /\ returned' = IF r.error = "" THEN [value_dict |-> r.value_dict]
                            ELSE IF r.why = "not discretisable"
                            THEN [why |-> r.why, failed |-> r.failed, length |-> r.length]
                            ELSE [why |-> r.why]
    /\ UNCHANGED <<mesh, regions, stdout, composite>>

\* new_mesh, value_dict = subdivide_region_new(mesh, region, ...)
CallSubdivideNew ==
    /\ outcome = "none"
    /\ \E a \in SubdivideNewArgs(mesh) :
         LET r == subdivide_region_new(mesh, a)
         IN  /\ call' = a
             /\ pre' = details
             /\ outcome' = IF r.error = "" THEN "ok" ELSE r.error
             /\ returned' = IF r.error = ""
                            THEN [value_dict |-> r.value_dict,
                                  new_mesh |-> [region |-> mesh.region, cell |-> mesh.cell,
                                                subregions |-> r.subregions]]
                            ELSE IF r.why = "not multiple of cell"
                            THEN [why |-> r.why, length |-> r.length]
                            ELSE [why |-> r.why]
    /\ UNCHANGED <<details, mesh, regions, stdout, composite>>

NextSubdivide == CallSubdivide \/ CallSubdivideNew

SpecSubdivide == InitSubdivide /\ [][NextSubdivide]_vars

----------------------------------------------------------------------------
(* The last subdivide call, as the claims about it read it *)

Subdivided == call.fn \in {"subdivide_region", "subdivide_region_new"}

\* the region that was subdivided
CallParent == IF call.fn = "subdivide_region" THEN call.main_region ELSE call.region

CallIdx == axis_to_index[call.axis]

CallLength == CallParent.pmax[CallIdx] - CallParent.pmin[CallIdx]

\* the number of pieces asked for
CallN == Cardinality(DOMAIN Boundaries(call, CallLength)) - 1

\* the name piece i is stored under
CallPieceName(i) ==
    IF call.fn = "subdivide_region" THEN FName(NameRoot(call), "", i)
    ELSE FName(call.name_root, "_", i)

\* piece i as the caller holds it after the call: in the container, or among
\* the subregions of the mesh that was returned
CallPiece(i) ==
    IF call.fn = "subdivide_region" THEN DictGet(details, CallPieceName(i))
    ELSE returned.new_mesh.subregions[CallPieceName(i)]

\* the offsets are strictly increasing and inside the parent (or N equal pieces)
OffsetsValid ==
    \/ call.partition_distances = NoArg
    \/ LET pd == call.partition_distances[1]
       IN  /\ \A k \in 1..Len(pd) : 0 <= pd[k] /\ pd[k] <= CallLength
           /\ \A k \in 1..(Len(pd) - 1) : pd[k] < pd[k + 1]

\* the discretisation check is made: subdivide_region_new always makes it,
\* subdivide_region when asked to and the parent carries a cell size
CheckApplies ==
    \/ call.fn = "subdivide_region_new"
    \/ /\ call.fn = "subdivide_region"
       /\ call.compatible_discretisation
       /\ CellAvailable(call.main_region)

\* the cell size the check is made against
CallCell ==
    IF call.fn = "subdivide_region" THEN call.main_region.cell[CallIdx] ELSE mesh.cell[CallIdx]

\* the call was aborted by the discretisation check
AbortedByCheck ==
    /\ Subdivided
    /\ outcome = "ValueError"
    /\ returned.why \in {"not discretisable", "not multiple of cell"}

----------------------------------------------------------------------------
(* C2: when a piece fails the discretisation check, subdivide aborts and    *)
(* the caller's container is exactly as before the call: no piece created   *)
(* before the failing one is present and the parent is still present.       *)
(* Stated of the code; subdivide_region violates it.                        *)
C2_AbortCommitsNothing ==
    AbortedByCheck => /\ details = pre
                      /\ \A i \in 0..(CallN - 1) :
                            call.fn = "subdivide_region"
                                => (DictHas(details, CallPieceName(i))
                                        <=> DictHas(pre, CallPieceName(i)))

----------------------------------------------------------------------------
\* the call returned, having been asked for N >= 1 pieces by valid offsets
SubdivideSucceeded == Subdivided /\ outcome = "ok" /\ CallN >= 1 /\ OffsetsValid

(* C3: the pieces of a successful subdivide are contiguous and tile the     *)
(* parent along the axis: piece 0 starts at the parent's pmin, piece N-1    *)
(* ends at the parent's pmax, each piece ends where the next starts, the    *)
(* lengths sum to the parent's length, and every piece has the parent's     *)
(* extent on the two other axes.                                            *)
(* Stated of the code; subdivide_region and subdivide_region_new violate it *)
RECURSIVE SumOfLengths(_)
SumOfLengths(n) ==
    IF n = 0 THEN 0
    ELSE SumOfLengths(n - 1) + CallPiece(n - 1).pmax[CallIdx] - CallPiece(n - 1).pmin[CallIdx]

C3_PiecesTileParent ==
    SubdivideSucceeded =>
        /\ CallPiece(0).pmin[CallIdx] = CallParent.pmin[CallIdx]
        /\ CallPiece(CallN - 1).pmax[CallIdx] = CallParent.pmax[CallIdx]
        /\ \A i \in 0..(CallN - 2) : CallPiece(i).pmax[CallIdx] = CallPiece(i + 1).pmin[CallIdx]
        /\ SumOfLengths(CallN) = CallLength
        /\ \A i \in 0..(CallN - 1) : \A k \in (1..3) \ {CallIdx} :
              /\ CallPiece(i).pmin[k] = CallParent.pmin[k]
              /\ CallPiece(i).pmax[k] = CallParent.pmax[k]

(* C4: the values of the N pieces are linspace(value_min, value_max, N):    *)
(* value_min for the first, value_max for the last, equally spaced between  *)
(* (0, 1/3, 2/3, 1 for 0, 1 and N = 4), and value_min alone for N = 1.      *)
(* Stated of the code; subdivide_region violates it.                        *)
C4_ValuesAreLinspace ==
    SubdivideSucceeded =>
        /\ DictKeys(returned.value_dict) = {CallPieceName(i) : i \in 0..(CallN - 1)}
        /\ \A i \in 0..(CallN - 1) :
              RatEq(DictGet(returned.value_dict, CallPieceName(i)),
                    Linspace(call.value_min, call.value_max, CallN, i))
        /\ RatEq(DictGet(returned.value_dict, CallPieceName(0)), Rat(call.value_min, 1))
        /\ CallN > 1 =>
              RatEq(DictGet(returned.value_dict, CallPieceName(CallN - 1)),
                    Rat(call.value_max, 1))

\* |L/c - round(L/c)| <= tol, tol in millionths
WithinTolerance(L, c, tolMicro) ==
    Abs(L - c * RoundHalfEven(L, c)) * 1000000 <= c * tolMicro

\* the length along the axis of the piece the loop builds at index i
BuiltLength(i) ==
    IF call.fn = "subdivide_region"
    THEN PieceCorners(call, i).pmax[CallIdx] - PieceCorners(call, i).pmin[CallIdx]
    ELSE NewPieceCorners(call, i).p2[CallIdx] - NewPieceCorners(call, i).p1[CallIdx]

(* C5: the divisibility check accepts a piece of length L against cell      *)
(* size c and tolerance tol exactly when |L/c - round(L/c)| <= tol; a piece *)
(* that deviates by more is rejected whatever the size of L/c.              *)
(* Stated of the code; subdivide_region violates it.                        *)
C5_CheckIsAbsoluteTolerance ==
    /\ (SubdivideSucceeded /\ CheckApplies)
          => \A i \in 0..(CallN - 1) :
                WithinTolerance(BuiltLength(i), CallCell, call.discretisation_tol)
    /\ AbortedByCheck
          => ~WithinTolerance(returned.length, CallCell, call.discretisation_tol)

----------------------------------------------------------------------------
(* merge_regions *)

\* what MyRegions.__init__ leaves in _mesh: the dataclasses.Field object that
\* field(init=False, default=None) returns (MyRegions is no dataclass)
FieldObject == "dataclasses.Field"

\* MyRegions(name)
MyRegionsInit(name) == [name |-> name, _details |-> <<>>, _mesh |-> FieldObject]

\* the loop over region1._details.items() (lines 402-403) from item i on
RECURSIVE MergeFirst(_, _, _)
MergeFirst(items, i, merged_details) ==
    IF i > Len(items) THEN merged_details
    ELSE MergeFirst(items, i + 1, DictSet(merged_details, items[i][1], items[i][2]))

\* a second loop that warns about a duplicate and stores it all the same
RECURSIVE MergeSecondOverwrites(_, _, _, _)
MergeSecondOverwrites(items, i, merged_details, printed) ==
    IF i > Len(items) THEN [_details |-> merged_details, printed |-> printed]
    ELSE MergeSecondOverwrites(items, i + 1,
                               DictSet(merged_details, items[i][1], items[i][2]),
                               IF DictHas(merged_details, items[i][1])
                               THEN Append(printed, [warning |-> "already exists",
                                                     key |-> items[i][1]])
                               ELSE printed)

\* a second loop that skips a duplicate without a word
RECURSIVE MergeSecondSilent(_, _, _, _)
MergeSecondSilent(items, i, merged_details, printed) ==
    IF i > Len(items) THEN [_details |-> merged_details, printed |-> printed]
    ELSE MergeSecondSilent(items, i + 1,
                           IF DictHas(merged_details, items[i][1]) THEN merged_details
                           ELSE DictSet(merged_details, items[i][1], items[i][2]),
                           printed)

\* the loop over region2._details.items() (lines 406-410) from item i on:
\* the merged dict and the lines printed
RECURSIVE MergeSecond(_, _, _, _)
MergeSecond(items, i, merged_details, printed) ==
    IF i > Len(items) THEN [_details |-> merged_details, printed |-> printed]
    ELSE IF DictHas(merged_details, items[i][1])
    THEN MergeSecond(items, i + 1, merged_details,
                     Append(printed, [warning |-> "already exists", key |-> items[i][1]]))
    ELSE MergeSecond(items, i + 1, DictSet(merged_details, items[i][1], items[i][2]), printed)

\* merge_regions(region1, region2): the MyRegions it returns and what it prints
merge_regions(region1, region2) ==
    LET second == MergeSecond(region2._details, 1,
                              MergeFirst(region1._details, 1, <<>>), <<>>)
    IN  [merged |-> [name |-> <<region1.name, "_merged">>,
                     _details |-> second._details,
                     _mesh |-> IF region1._mesh # "None" THEN region1._mesh
                               ELSE region2._mesh],
         printed |-> second.printed]

----------------------------------------------------------------------------
(* The merge specification: two containers are built with add_subregion    *)
(* and the mesh setter, then merge_regions is called on them.               *)

\* two regions for the key "x", one for "y", one for "z"
XA == SubRegionRec(Key("x"), <<0, 0, 0>>, <<4 * G, G, G>>, FALSE, <<>>)
XB == SubRegionRec(Key("x"), <<4 * G, 0, 0>>, <<8 * G, G, G>>, FALSE, <<>>)
YA == SubRegionRec(Key("y"), <<0, 0, 0>>, <<2 * G, G, G>>, FALSE, <<>>)
ZB == SubRegionRec(Key("z"), <<2 * G, 0, 0>>, <<4 * G, G, G>>, FALSE, <<>>)
MergeSubRegions == {XA, XB, YA, ZB}

\* the df.Mesh objects a mesh setter is given
MeshObjects == {"meshA", "meshB"}

InitMerge ==
    /\ regions = [r1 |-> MyRegionsInit("first"), r2 |-> MyRegionsInit("second")]
    /\ details = <<>>
    /\ mesh = None
    /\ call = NoCall
    /\ pre = <<>>
    /\ outcome = "none"
    /\ returned = None
    /\ stdout = <<>>
    /\ composite = None

\* regions.add_subregion(new_subregion); a KeyError leaves the container as it was
AddSubregion ==
    /\ call = NoCall
    /\ \E o \in {"r1", "r2"}, sub \in MergeSubRegions :
          regions' = [regions EXCEPT
                         ![o]._details = add_subregion(regions[o]._details, sub).details]
    /\ UNCHANGED <<details, mesh, call, pre, outcome, returned, stdout, composite>>

\* regions.mesh = value, a df.Mesh
SetMesh ==
    /\ call = NoCall
    /\ \E o \in {"r1", "r2"}, value \in MeshObjects :
          regions' = [regions EXCEPT ![o]._mesh = value]
    /\ UNCHANGED <<details, mesh, call, pre, outcome, returned, stdout, composite>>

\* merged = merge_regions(region1, region2)
CallMerge ==
    /\ call = NoCall
    /\ LET r == merge_regions(regions.r1, regions.r2)
       IN  /\ call' = [fn |-> "merge_regions", region1 |-> regions.r1, region2 |-> regions.r2]
           /\ outcome' = "ok"
           /\ returned' = [merged |-> r.merged]
           /\ stdout' = stdout \o r.printed
    /\ UNCHANGED <<details, mesh, pre, regions, composite>>

NextMerge == AddSubregion \/ SetMesh \/ CallMerge

SpecMerge == InitMerge /\ [][NextMerge]_vars

Merged == call.fn = "merge_regions"

\* the keys held by both containers
SharedKeys == DictKeys(call.region1._details) \cap DictKeys(call.region2._details)

(* C6: the merged container's keys are the union of both key sets; every    *)
(* key of the first container maps to the first container's region, also    *)
(* when the second holds the key with another region, and every key held    *)
(* only by the second maps to the second container's region.                *)
C6_MergeFirstWins ==
    Merged =>
        LET d1 == call.region1._details
            d2 == call.region2._details
            dm == returned.merged._details
        IN  /\ DictKeys(dm) = DictKeys(d1) \cup DictKeys(d2)
            /\ \A k \in DictKeys(d1) : DictGet(dm, k) = DictGet(d1, k)
            /\ \A k \in DictKeys(d2) \ DictKeys(d1) : DictGet(dm, k) = DictGet(d2, k)
            /\ Len(dm) = Cardinality(DictKeys(dm))

\* a merge where both hold "x" with different regions, and the second holds a key alone
C6_Witness ==
    /\ Merged
    /\ \E k \in SharedKeys :
          DictGet(call.region1._details, k) # DictGet(call.region2._details, k)
    /\ DictKeys(call.region2._details) \ DictKeys(call.region1._details) # {}

\* the warnings merge_regions returns alongside the merged container
ReturnedWarnings ==
    IF "warnings" \in DOMAIN returned THEN returned.warnings ELSE <<>>

HasMesh(r) == r._mesh \in MeshObjects

(* C8: the merged container's mesh is the first container's mesh when the   *)
(* first has one, and the second container's mesh when the first has none   *)
(* (also when no mesh was ever set on the first).                           *)
(* Stated of the code; MyRegions.__init__ and merge_regions violate it.     *)
C8_MeshPrefersFirst ==
    Merged =>
        returned.merged._mesh =
            IF HasMesh(call.region1) THEN call.region1._mesh ELSE call.region2._mesh

----------------------------------------------------------------------------
(* add_inter_subregion_values.  A key of the table is the sequence of the   *)
(* names joined by ":" in the code: <<"a">> is "a", <<"a", "b">> is "a:b",  *)
(* <<"entire", "a">> is "entire:a".                                         *)

\* an update that keeps the value a key already has
RECURSIVE DictUpdateKeepsFirst(_, _, _)
DictUpdateKeepsFirst(merged, d, i) ==
    IF i > Len(d) THEN merged
    ELSE DictUpdateKeepsFirst(IF DictHas(merged, d[i][1]) THEN merged
                              ELSE DictSet(merged, d[i][1], d[i][2]),
                              d, i + 1)

\* merged.update(d) from item i of d on
RECURSIVE DictUpdate(_, _, _)
DictUpdate(merged, d, i) ==
    IF i > Len(d) THEN merged
    ELSE DictUpdate(DictSet(merged, d[i][1], d[i][2]), d, i + 1)

\* merged after the loop of lines 680-682, from dict number j on
RECURSIVE MergeDicts(_, _, _)
MergeDicts(merged, dicts, j) ==
    IF j > Len(dicts) THEN merged
    ELSE MergeDicts(DictUpdate(merged, dicts[j], 1), dicts, j + 1)

\* (x + y) / 2.0
Mean(x, y) == Rat(x.n * y.d + y.n * x.d, 2 * x.d * y.d)

\* a walk that writes the coupling of a pair in one direction only
RECURSIVE WalkPairsOneWay(_, _, _, _)
WalkPairsOneWay(new_dict, merged, i, precision) ==
    IF i >= Len(merged) THEN new_dict
    ELSE LET a == merged[i][1]
             b == merged[i + 1][1]
             avg == RoundValue(Mean(merged[i][2], merged[i + 1][2]), precision)
         IN  WalkPairsOneWay(DictSet(DictSet(new_dict, <<a>>, merged[i][2]), <<a, b>>, avg),
                             merged, i + 1, precision)

\* the loop of lines 695-704 over zip(keys, keys[1:]) from pair i on
RECURSIVE WalkPairs(_, _, _, _)
WalkPairs(new_dict, merged, i, precision) ==
    IF i >= Len(merged) THEN new_dict
    ELSE LET a == merged[i][1]
             b == merged[i + 1][1]
             avg == RoundValue(Mean(merged[i][2], merged[i + 1][2]), precision)
         IN  WalkPairs(DictSet(DictSet(DictSet(new_dict, <<a>>, merged[i][2]),
                                       <<a, b>>, avg),
                               <<b, a>>, avg),
                       merged, i + 1, precision)

\* a table whose far end is coupled with the left chain value
add_inter_subregion_values_left_only(dicts, dmi_chain_left, dmi_chain_right, precision) ==
    LET merged == MergeDicts(<<>>, dicts, 1)
    IN  IF Len(merged) = 0 THEN <<>>
        ELSE
          LET first == merged[1][1]
              last == merged[Len(merged)][1]
              caps == DictSet(DictSet(<<>>, <<"entire", first>>, dmi_chain_left),
                              <<first, "entire">>, dmi_chain_left)
              walked == WalkPairs(caps, merged, 1, precision)
          IN  DictSet(DictSet(DictSet(walked, <<last>>, merged[Len(merged)][2]),
                              <<last, "entire">>, dmi_chain_left),
                      <<"entire", last>>, dmi_chain_left)

\* add_inter_subregion_values(*dicts, dmi_chain_left, dmi_chain_right, precision)
add_inter_subregion_values(dicts, dmi_chain_left, dmi_chain_right, precision) ==
    LET merged == MergeDicts(<<>>, dicts, 1)
    IN  IF Len(merged) = 0 THEN <<>>
        ELSE
          LET first == merged[1][1]
              last == merged[Len(merged)][1]
              caps == DictSet(DictSet(<<>>, <<"entire", first>>, dmi_chain_left),
                              <<first, "entire">>, dmi_chain_left)
              walked == WalkPairs(caps, merged, 1, precision)
          IN  DictSet(DictSet(DictSet(walked, <<last>>, merged[Len(merged)][2]),
                              <<last, "entire">>, dmi_chain_right),
                      <<"entire", last>>, dmi_chain_right)

----------------------------------------------------------------------------
(* The coupling specification: add_inter_subregion_values is called on      *)
(* value dicts such as subdivide returns.                                   *)

CouplingKeys == {"a", "b", "c"}

\* values in value units, some of them between points of the 1e-4 grid
CouplingValues ==
    {Rat(10 * FineUnits, 1), Rat(10 * FineUnits + 1, 1), Rat(30 * FineUnits + 2, 1)}

\* ordered dicts of at most n items with distinct keys
ValueDicts(n) ==
    {d \in UNION {[1..m -> CouplingKeys \X CouplingValues] : m \in 0..n} :
        \A i, j \in 1..Len(d) : i # j => d[i][1] # d[j][1]}

\* one dict of up to three regions, alone or followed by a dict of one
CouplingInputs ==
    {<<d>> : d \in ValueDicts(3)}
    \cup {<<d, e>> : d \in ValueDicts(2), e \in ValueDicts(1) \ {<<>>}}

\* precision: 3 and 4 decimals, and the default 10
Precisions == {3, 4, 10}

\* (dmi_chain_left, dmi_chain_right)
ChainEnds == {<<Rat(5, 1), Rat(7, 1)>>, <<Rat(5, 1), Rat(5, 1)>>}

InitCoupling ==
    /\ call = NoCall
    /\ outcome = "none"
    /\ returned = None
    /\ details = <<>>
    /\ mesh = None
    /\ pre = <<>>
    /\ regions = None
    /\ stdout = <<>>
    /\ composite = None

\* D = add_inter_subregion_values(*dicts, dmi_chain_left=..., dmi_chain_right=..., precision=...)
CallCoupling ==
    /\ call = NoCall
    /\ \E dicts \in CouplingInputs, ends \in ChainEnds, precision \in Precisions :
          /\ call' = [fn |-> "add_inter_subregion_values", dicts |-> dicts,
                      dmi_chain_left |-> ends[1], dmi_chain_right |-> ends[2],
                      precision |-> precision]
          /\ returned' = [new_dict |-> add_inter_subregion_values(dicts, ends[1], ends[2],
                                                                 precision)]
          /\ outcome' = "ok"
    /\ UNCHANGED <<details, mesh, pre, regions, stdout, composite>>

NextCoupling == CallCoupling

SpecCoupling == InitCoupling /\ [][NextCoupling]_vars

Coupled == call.fn = "add_inter_subregion_values"

\* the input maps merged in order: the key order and the value of each key
CallMerged == MergeDicts(<<>>, call.dicts, 1)

(* C9: for every adjacent pair (a, b) in merged key order the table holds   *)
(* "a:b" and "b:a", both round((value[a] + value[b]) / 2, precision); it    *)
(* holds no "x:y" for region keys x, y that are not adjacent; and every     *)
(* input key a keeps its entry a -> value[a].                               *)
C9_NeighbourMeans ==
    Coupled =>
        LET m == CallMerged
            t == returned.new_dict
        IN  /\ \A i \in 1..(Len(m) - 1) :
                  LET a == m[i][1]
                      b == m[i + 1][1]
                      mean == RoundValue(Rat(m[i][2].n * m[i + 1][2].d
                                               + m[i + 1][2].n * m[i][2].d,
                                             2 * m[i][2].d * m[i + 1][2].d),
                                         call.precision)
                  IN  /\ DictHas(t, <<a, b>>) /\ DictHas(t, <<b, a>>)
                      /\ DictGet(t, <<a, b>>) = mean
                      /\ DictGet(t, <<b, a>>) = mean
            /\ \A i, j \in 1..Len(m) :
                  (i - j \notin {1, 0 - 1}) => ~DictHas(t, <<m[i][1], m[j][1]>>)
            /\ \A i \in 1..Len(m) :
                  DictHas(t, <<m[i][1]>>) /\ DictGet(t, <<m[i][1]>>) = m[i][2]

\* the input maps that hold the key k, by their position in the call
MapsWith(k) == {j \in 1..Len(call.dicts) : DictHas(call.dicts[j], k)}

\* the value of k in the latest input map that holds it
LatestValue(k) ==
    LET j == CHOOSE j \in MapsWith(k) : \A h \in MapsWith(k) : h <= j
    IN  DictGet(call.dicts[j], k)

(* C11: the input maps are merged in the given order with last-wins         *)
(* values: the chain holds exactly the keys of the input maps, the          *)
(* self-coupling entry of a key is its value in the latest map that holds   *)
(* it, and the means of a key with its neighbours in merged key order are   *)
(* taken over those latest values.                                          *)
C11_LastMapWins ==
    Coupled =>
        LET m == CallMerged
            t == returned.new_dict
        IN  /\ {m[i][1] : i \in 1..Len(m)}
                  = UNION {DictKeys(call.dicts[j]) : j \in 1..Len(call.dicts)}
            /\ \A i \in 1..Len(m) : DictGet(t, <<m[i][1]>>) = LatestValue(m[i][1])
            /\ \A i \in 1..(Len(m) - 1) :
                  LET mean == RoundValue(Mean(LatestValue(m[i][1]),
                                              LatestValue(m[i + 1][1])),
                                         call.precision)
                  IN  /\ DictGet(t, <<m[i][1], m[i + 1][1]>>) = mean
                      /\ DictGet(t, <<m[i + 1][1], m[i][1]>>) = mean

\* a key of the first map comes again in the second with another value, and
\* has a neighbour
C11_Witness ==
    /\ Coupled
    /\ Len(call.dicts) = 2
    /\ Len(CallMerged) >= 2
    /\ \E k \in DictKeys(call.dicts[1]) \cap DictKeys(call.dicts[2]) :
          /\ DictGet(call.dicts[1], k) # DictGet(call.dicts[2], k)
          /\ DictGet(returned.new_dict, <<k>>) = DictGet(call.dicts[2], k)

\* three regions in the chain, and a mean that the rounding changes
C9_Witness ==
    /\ Coupled
    /\ Len(CallMerged) = 3
    /\ \E i \in 1..2 :
          ~RatEq(DictGet(returned.new_dict, <<CallMerged[i][1], CallMerged[i + 1][1]>>),
                 Mean(CallMerged[i][2], CallMerged[i + 1][2]))

(* C10, as claimed: for every non-empty merged input, a single key          *)
(* included, "entire:first" and "first:entire" equal left_boundary and      *)
(* "last:entire" and "entire:last" equal right_boundary.                    *)
C10_ChainEnds ==
    (Coupled /\ Len(CallMerged) >= 1) =>
        LET first == CallMerged[1][1]
            last == CallMerged[Len(CallMerged)][1]
            t == returned.new_dict
        IN  /\ DictGet(t, <<"entire", first>>) = call.dmi_chain_left
            /\ DictGet(t, <<first, "entire">>) = call.dmi_chain_left
            /\ DictGet(t, <<last, "entire">>) = call.dmi_chain_right
            /\ DictGet(t, <<"entire", last>>) = call.dmi_chain_right

(* C10, amended: for every merged input of at least two keys,               *)
(* "entire:first" and "first:entire" equal left_boundary and "last:entire"  *)
(* and "entire:last" equal right_boundary; for a single key k, where first  *)
(* and last name the same two entries, "entire:k" and "k:entire" both equal *)
(* right_boundary.                                                          *)
C10_ChainEndsAmended ==
    (Coupled /\ Len(CallMerged) >= 1) =>
        LET first == CallMerged[1][1]
            last == CallMerged[Len(CallMerged)][1]
            t == returned.new_dict
        IN  /\ DictHas(t, <<"entire", first>>) /\ DictHas(t, <<first, "entire">>)
            /\ DictHas(t, <<"entire", last>>) /\ DictHas(t, <<last, "entire">>)
            /\ DictGet(t, <<last, "entire">>) = call.dmi_chain_right
            /\ DictGet(t, <<"entire", last>>) = call.dmi_chain_right
            /\ Len(CallMerged) >= 2 =>
                  /\ DictGet(t, <<"entire", first>>) = call.dmi_chain_left
                  /\ DictGet(t, <<first, "entire">>) = call.dmi_chain_left

\* a chain of several keys with different ends
C10_Witness ==
    /\ Coupled
    /\ Len(CallMerged) >= 2
    /\ call.dmi_chain_left # call.dmi_chain_right
    /\ DictGet(returned.new_dict, <<"entire", CallMerged[1][1]>>) = call.dmi_chain_left

----------------------------------------------------------------------------
(* Profiles and composites (damping_absorbing_region.py).  A profile call   *)
(* returns NoArg for None and Arg(v) for the value v.                       *)

\* pos in region, for a df.Region: the closed box pmin..pmax
InRegion(pos, region) ==
    \A i \in 1..3 : region.pmin[i] <= pos[i] /\ pos[i] <= region.pmax[i]

\* a raised exception as the outcome of a profile call
Raised(e) == <<"raise", e>>
IsRaised(val) == Len(val) = 2

\* float('nan')
NaN == [nan |-> TRUE]

\* x / 0.0: numpy scalars give nan (0/0) with a RuntimeWarning, Python floats
\* raise ZeroDivisionError; np_floats tells which of the two the numbers
\* stored in the profile are
DivisionByZero(self) ==
    IF self.np_floats THEN Arg(NaN) ELSE Raised("ZeroDivisionError")

\* BulkAlpha.__call__
BulkAlpha(self, pos) == Arg(self.alpha_bulk)

\* DrivenRegionAlpha.__call__
DrivenRegionAlpha(self, pos) ==
    IF InRegion(pos, self.region) THEN Arg(self.alpha_driven) ELSE NoArg

\* a ramp that runs from the right value to the left one
RampReversed(x, x0, x1, left, right) ==
    Rat(right.n * (x1 - x0) + (x - x0) * (left.n - right.n), x1 - x0)

\* alpha_left + t * (alpha_right - alpha_left) with t = (x - x0) / (x1 - x0)
Ramp(x, x0, x1, left, right) ==
    Rat(left.n * (x1 - x0) + (x - x0) * (right.n - left.n), x1 - x0)

\* LinearGradientAlpha.__call__
LinearGradientAlpha(self, pos) ==
    IF ~InRegion(pos, self.region) THEN NoArg
    ELSE IF pos[1] < self.x0 \/ pos[1] > self.x1 THEN NoArg
    ELSE IF self.x1 = self.x0 THEN DivisionByZero(self)
    ELSE Arg(Ramp(pos[1], self.x0, self.x1, self.alpha_left, self.alpha_right))

\* BulkFieldStrength.__call__
BulkFieldStrength(self, pos) == Arg(self.field_strength_bulk)

\* UniformFieldStrength.__call__
UniformFieldStrength(self, pos) ==
    IF InRegion(pos, self.region) THEN Arg(self.uniform_field_strength) ELSE NoArg

\* LinearGradientField.__call__: only the z component is interpolated
LinearGradientField(self, pos) ==
    IF ~InRegion(pos, self.region) THEN NoArg
    ELSE IF pos[1] < self.x0 \/ pos[1] > self.x1 THEN NoArg
    ELSE IF self.x1 = self.x0
    THEN IF self.np_floats THEN Arg(<<Rat(0, 1), Rat(0, 1), NaN>>)
         ELSE Raised("ZeroDivisionError")
    ELSE Arg(<<Rat(0, 1), Rat(0, 1),
               Ramp(pos[1], self.x0, self.x1,
                    self.field_strength_left[3], self.field_strength_right[3])>>)

\* ExponentialGradientAlpha.__call__: alpha_start * exp(log_ratio * t), kept
\* as the expression it is, with t a rational
ExponentialGradientAlpha(self, pos) ==
    IF ~InRegion(pos, self.region) THEN NoArg
    ELSE IF pos[1] < self.x0 \/ pos[1] > self.x1 THEN NoArg
    ELSE IF self.x1 = self.x0 THEN DivisionByZero(self)
    ELSE Arg([alpha_start |-> self.alpha_start, alpha_end |-> self.alpha_end,
              exp_log_ratio_times |-> Reduced(pos[1] - self.x0, self.x1 - self.x0)])

\* 1.0 - (1.0 - alpha_bulk) * t, or alpha_bulk + (1.0 - alpha_bulk) * t when
\* reverse, with t = d / w
EdgeRamp(self, d) ==
    IF ~self.reverse
    THEN Rat(One * self.alpha_bulk.d * self.w
               - (One * self.alpha_bulk.d - self.alpha_bulk.n) * d,
             self.alpha_bulk.d * self.w)
    ELSE Rat(self.alpha_bulk.n * self.w
               + (One * self.alpha_bulk.d - self.alpha_bulk.n) * d,
             self.alpha_bulk.d * self.w)

\* AbsorbingLinearAlpha.__call__; xmin and xmax are region.pmin[0] and
\* region.pmax[0]
AbsorbingLinearAlpha(self, pos) ==
    IF ~InRegion(pos, self.region) THEN NoArg
    ELSE LET dL == pos[1] - self.region.pmin[1]
             dR == self.region.pmax[1] - pos[1]
         IN  IF dL <= self.w
             THEN IF self.w = 0 THEN DivisionByZero(self) ELSE Arg(EdgeRamp(self, dL))
             ELSE IF dR <= self.w
             THEN IF self.w = 0 THEN DivisionByZero(self) ELSE Arg(EdgeRamp(self, dR))
             ELSE NoArg

\* np.exp(self.log_bulk * frac), or of (1 - frac) when reverse, with
\* frac = d / w: alpha_bulk to that power, kept as the expression it is
EdgeExp(self, d) ==
    IF ~self.reverse
    THEN [alpha_bulk |-> self.alpha_bulk, power |-> Reduced(d, self.w)]
    ELSE [alpha_bulk |-> self.alpha_bulk, power |-> Reduced(self.w - d, self.w)]

\* AbsorbingExponentialAlpha.__call__
AbsorbingExponentialAlpha(self, pos) ==
    IF ~InRegion(pos, self.region) THEN NoArg
    ELSE LET dL == pos[1] - self.region.pmin[1]
             dR == self.region.pmax[1] - pos[1]
         IN  IF dL <= self.w
             THEN IF self.w = 0 THEN DivisionByZero(self) ELSE Arg(EdgeExp(self, dL))
             ELSE IF dR <= self.w
             THEN IF self.w = 0 THEN DivisionByZero(self) ELSE Arg(EdgeExp(self, dR))
             ELSE NoArg

\* mix(t) with t = d / w: alpha_bulk + (1.0 - alpha_bulk) * s, where
\* s = (1 - y) / 2, or (1 + y) / 2 when reverse, and y = tanh(k * (2t - 1));
\* kept as the expression it is
TanhMix(self, d) ==
    [alpha_bulk |-> self.alpha_bulk, k |-> self.k,
     sign_of_y |-> IF self.reverse THEN 1 ELSE 0 - 1,
     two_t_minus_1 |-> Reduced(2 * d - self.w, self.w)]

\* AbsorbingTanhAlpha.__call__
AbsorbingTanhAlpha(self, pos) ==
    IF ~InRegion(pos, self.region) THEN NoArg
    ELSE LET dL == pos[1] - self.region.pmin[1]
             dR == self.region.pmax[1] - pos[1]
         IN  IF dL <= self.w
             THEN IF self.w = 0 THEN DivisionByZero(self) ELSE Arg(TanhMix(self, dL))
             ELSE IF dR <= self.w
             THEN IF self.w = 0 THEN DivisionByZero(self) ELSE Arg(TanhMix(self, dR))
             ELSE NoArg

\* p(pos): the __call__ of the class of p
ProfileCall(p, pos) ==
    CASE p.cls = "BulkAlpha" -> BulkAlpha(p, pos)
      [] p.cls = "DrivenRegionAlpha" -> DrivenRegionAlpha(p, pos)
      [] p.cls = "LinearGradientAlpha" -> LinearGradientAlpha(p, pos)
      [] p.cls = "BulkFieldStrength" -> BulkFieldStrength(p, pos)
      [] p.cls = "UniformFieldStrength" -> UniformFieldStrength(p, pos)
      [] p.cls = "LinearGradientField" -> LinearGradientField(p, pos)
      [] p.cls = "ExponentialGradientAlpha" -> ExponentialGradientAlpha(p, pos)
      [] p.cls = "AbsorbingLinearAlpha" -> AbsorbingLinearAlpha(p, pos)
      [] p.cls = "AbsorbingExponentialAlpha" -> AbsorbingExponentialAlpha(p, pos)
      [] p.cls = "AbsorbingTanhAlpha" -> AbsorbingTanhAlpha(p, pos)

\* a composite that keeps the value of the last profile that applies
RECURSIVE CompositeAlphaLastWins(_, _, _)
CompositeAlphaLastWins(self, pos, i) ==
    IF i > Len(self.profiles) THEN [val |-> self.alpha_bulk, by |-> 0]
    ELSE LET rest == CompositeAlphaLastWins(self, pos, i + 1)
             val == ProfileCall(self.profiles[i], pos)
         IN  IF rest.by # 0 \/ val = NoArg THEN rest ELSE [val |-> val[1], by |-> i]

\* a composite that tests the truth of the value: `if val:` takes 0.0 for
\* no value
RECURSIVE CompositeAlphaTruthy(_, _, _)
CompositeAlphaTruthy(self, pos, i) ==
    IF i > Len(self.profiles) THEN [val |-> self.alpha_bulk, by |-> 0]
    ELSE LET val == ProfileCall(self.profiles[i], pos)
         IN  IF IsRaised(val) THEN [raised |-> val[2], by |-> i]
             ELSE IF val # NoArg /\ val[1].n # 0 THEN [val |-> val[1], by |-> i]
             ELSE CompositeAlphaTruthy(self, pos, i + 1)

\* CompositeAlpha.__call__ from profile i on: the value returned and the
\* profile that gave it, 0 for the return of alpha_bulk after the loop
RECURSIVE CompositeAlpha(_, _, _)
CompositeAlpha(self, pos, i) ==
    IF i > Len(self.profiles) THEN [val |-> self.alpha_bulk, by |-> 0]
    ELSE LET val == ProfileCall(self.profiles[i], pos)
         IN  IF IsRaised(val) THEN [raised |-> val[2], by |-> i]
             ELSE IF val # NoArg THEN [val |-> val[1], by |-> i]
             ELSE CompositeAlpha(self, pos, i + 1)

\* CompositeFieldStrength.__call__ from profile i on
RECURSIVE CompositeFieldStrength(_, _, _)
CompositeFieldStrength(self, pos, i) ==
    IF i > Len(self.profiles) THEN [val |-> self.field_strength_bulk, by |-> 0]
    ELSE LET val == ProfileCall(self.profiles[i], pos)
         IN  IF IsRaised(val) THEN [raised |-> val[2], by |-> i]
             ELSE IF val # NoArg THEN [val |-> val[1], by |-> i]
             ELSE CompositeFieldStrength(self, pos, i + 1)

----------------------------------------------------------------------------
(* The composite specification: a composite is constructed over a list of   *)
(* profiles and then called at positions.                                   *)

\* the longest profile list
MaxProfiles == 2

\* regions along x, overlapping each other, one of them thin in y
BoxLeft == [pmin |-> <<0, 0, 0>>, pmax |-> <<4 * G, 2 * G, G>>]
BoxMid == [pmin |-> <<2 * G, 0, 0>>, pmax |-> <<6 * G, G, G>>]
Boxes == {BoxLeft, BoxMid}

Zero == Rat(0, 1)
AlphaValues == {Zero, Rat(One, 1)}

AlphaProfiles ==
    {[cls |-> "BulkAlpha", alpha_bulk |-> Rat(3, 1)]}
    \cup {[cls |-> "DrivenRegionAlpha", region |-> r, alpha_driven |-> v] :
             r \in Boxes, v \in AlphaValues}
    \cup {[cls |-> "LinearGradientAlpha", region |-> r, x0 |-> r.pmin[1], x1 |-> 5 * G,
           alpha_left |-> Rat(2, 1), alpha_right |-> Rat(One, 1)] : r \in Boxes}

FieldValues == {<<Zero, Zero, Zero>>, <<Zero, Zero, Rat(One, 1)>>}

FieldProfiles ==
    {[cls |-> "BulkFieldStrength", field_strength_bulk |-> <<Zero, Zero, Rat(3, 1)>>]}
    \cup {[cls |-> "UniformFieldStrength", region |-> r, uniform_field_strength |-> v] :
             r \in Boxes, v \in FieldValues}
    \cup {[cls |-> "LinearGradientField", region |-> r, x0 |-> r.pmin[1], x1 |-> 5 * G,
           field_strength_left |-> <<Zero, Zero, Rat(2, 1)>>,
           field_strength_right |-> <<Zero, Zero, Rat(One, 1)>>] : r \in Boxes}

ProfileLists(profiles) == UNION {[1..n -> profiles] : n \in 0..MaxProfiles}

\* positions inside one box, inside both, on faces and outside all
Positions == {<<x * G, y * G, 0>> : x \in {0, 1, 3, 5, 6, 7}, y \in {0, 2}}

InitComposite ==
    /\ composite = None
    /\ call = NoCall
    /\ outcome = "none"
    /\ returned = None
    /\ details = <<>>
    /\ mesh = None
    /\ pre = <<>>
    /\ regions = None
    /\ stdout = <<>>

\* alpha = CompositeAlpha(profiles, alpha_bulk)
NewCompositeAlpha ==
    /\ composite = None
    /\ \E profiles \in ProfileLists(AlphaProfiles) :
          composite' = [cls |-> "CompositeAlpha", profiles |-> profiles,
                        alpha_bulk |-> Rat(7, 1)]
    /\ UNCHANGED <<details, mesh, call, pre, outcome, returned, regions, stdout>>

\* H = CompositeFieldStrength(profiles, field_strength_bulk)
NewCompositeFieldStrength ==
    /\ composite = None
    /\ \E profiles \in ProfileLists(FieldProfiles) :
          composite' = [cls |-> "CompositeFieldStrength", profiles |-> profiles,
                        field_strength_bulk |-> <<Zero, Zero, Rat(7, 1)>>]
    /\ UNCHANGED <<details, mesh, call, pre, outcome, returned, regions, stdout>>

\* alpha(pos)
CallCompositeAlpha ==
    /\ composite # None
    /\ composite.cls = "CompositeAlpha"
    /\ \E pos \in Positions :
          /\ call' = [fn |-> "CompositeAlpha.__call__", pos |-> pos]
          /\ returned' = CompositeAlpha(composite, pos, 1)
    /\ outcome' = "ok"
    /\ UNCHANGED <<details, mesh, pre, regions, stdout, composite>>

\* H(pos)
CallCompositeFieldStrength ==
    /\ composite # None
    /\ composite.cls = "CompositeFieldStrength"
    /\ \E pos \in Positions :
          /\ call' = [fn |-> "CompositeFieldStrength.__call__", pos |-> pos]
          /\ returned' = CompositeFieldStrength(composite, pos, 1)
    /\ outcome' = "ok"
    /\ UNCHANGED <<details, mesh, pre, regions, stdout, composite>>

NextComposite ==
    \/ NewCompositeAlpha
    \/ NewCompositeFieldStrength
    \/ CallCompositeAlpha
    \/ CallCompositeFieldStrength

SpecComposite == InitComposite /\ [][NextComposite]_vars

CompositeCalled == call.fn \in {"CompositeAlpha.__call__", "CompositeFieldStrength.__call__"}

\* the profiles of the composite that return a value at the position called
Matches == {i \in 1..Len(composite.profiles) :
               ProfileCall(composite.profiles[i], call.pos) # NoArg}

StoredBulk ==
    IF composite.cls = "CompositeAlpha" THEN composite.alpha_bulk
    ELSE composite.field_strength_bulk

(* C1: a call of a composite, CompositeAlpha and CompositeFieldStrength     *)
(* alike, returns the value of the lowest-index profile that returns a      *)
(* value at the position, whatever later profiles return there, and it      *)
(* returns the stored bulk value from after the loop exactly when every     *)
(* profile returns None at the position.                                    *)
C1_FirstMatchWins ==
    CompositeCalled =>
        /\ (returned.by = 0) <=> (Matches = {})
        /\ Matches = {} => returned.val = StoredBulk
        /\ Matches # {} =>
              \E i \in Matches :
                  /\ \A j \in Matches : i <= j
                  /\ returned.by = i
                  /\ returned.val = ProfileCall(composite.profiles[i], call.pos)[1]

\* two profiles apply at the position and give different values
C1_Witness ==
    /\ CompositeCalled
    /\ Cardinality(Matches) = 2
    /\ ProfileCall(composite.profiles[1], call.pos)
         # ProfileCall(composite.profiles[2], call.pos)
    /\ returned.by = 1

----------------------------------------------------------------------------
(* create_scaled_region_from_base_region, in region_utils.py and in         *)
(* helper_functions.py.  A Region is [pmin, pmax, dims, units] with corners *)
(* in fine units; a factor is a rational; a result is [error, region].      *)

\* _ROUND_PRECISION (region_utils.py), and the 9 of round(v, 9) in
\* helper_functions.py
ROUND_PRECISION == 9

\* round(n/d, p) of a plain number: a number with at most p decimals is
\* returned as it is, any other goes to the nearest multiple of 10^-p
RoundNumber(n, d, p) ==
    LET r == Reduced(n, d)
    IN  IF (10 ^ p) % r.d = 0 THEN r
        ELSE Reduced(RoundHalfEven(r.n * 10 ^ p, r.d), 10 ^ p)

\* Region(p1=..., p2=..., dims=..., units=...) of discretisedfield
Region(p1, p2, dims, units) ==
    LET r == DfRegion(p1, p2)
    IN  IF r.error # "" THEN [error |-> r.error]
        ELSE [error |-> "",
              region |-> [pmin |-> r.region.pmin, pmax |-> r.region.pmax,
                          dims |-> dims, units |-> units]]

\* _make_region(p1, p2, template): the corners are sequences of rationals
make_region(p1, p2, template) ==
    Region([k \in 1..3 |-> RoundCoord(p1[k].n, p1[k].d, ROUND_PRECISION)],
           [k \in 1..3 |-> RoundCoord(p2[k].n, p2[k].d, ROUND_PRECISION)],
           template.dims, template.units)

\* a corner in fine units as a sequence of rationals
AsRats(p) == [k \in 1..3 |-> Rat(p[k], 1)]

\* region.scale(factor=..., reference_point=region.pmin, inplace=False): the
\* corners reference_point + (corner - reference_point) * factor, before the
\* new Region is made of them
ScaledCorners(region, factor) ==
    [pmin |-> AsRats(region.pmin),
     pmax |-> [k \in 1..3 |->
                  Rat(region.pmin[k] * factor[k].d
                        + (region.pmax[k] - region.pmin[k]) * factor[k].n,
                      factor[k].d)]]

\* the Region made of scaled corners keeps them sorted; an edge of length
\* zero is a ValueError
ScaleError(region, factor) == \E k \in 1..3 : factor[k].n = 0

SortedCorners(c) ==
    [pmin |-> [k \in 1..3 |-> IF c.pmax[k].n < c.pmin[k].n * c.pmax[k].d
                              THEN c.pmax[k] ELSE c.pmin[k]],
     pmax |-> [k \in 1..3 |-> IF c.pmax[k].n < c.pmin[k].n * c.pmax[k].d
                              THEN c.pmin[k] ELSE c.pmax[k]]]

\* reference_side.lower() matched against the accepted words
FaceOf(reference_side) ==
    IF reference_side \in {"max", "+ve", "positive"} THEN "positive"
    ELSE IF reference_side \in {"min", "-ve", "negative"} THEN "negative"
    ELSE "invalid"

\* the one-cell slab at a face of base_region along axis (an index 1..3)
SlabCorners(base_region, cell, face, axis) ==
    IF face = "positive"
    THEN [pmin |-> [base_region.pmin EXCEPT ![axis] = base_region.pmax[axis]],
          pmax |-> [base_region.pmax EXCEPT ![axis] = base_region.pmax[axis] + cell[axis]]]
    ELSE [pmin |-> [base_region.pmin EXCEPT ![axis] = base_region.pmin[axis] - cell[axis]],
          pmax |-> [base_region.pmax EXCEPT ![axis] = base_region.pmin[axis]]]

\* _AXIS_INDICES, which region_utils.py imports from src.config.type_aliases
AXIS_INDICES == [x |-> 1, y |-> 2, z |-> 3]

\* scale factors that stretch every axis alike
ScaleFactorsAllAxes(axis, factor) == [k \in 1..3 |-> factor]

\* scale_factors: 1.0 on every axis but the chosen one
ScaleFactors(axis, factor) == [k \in 1..3 |-> IF k = axis THEN factor ELSE Rat(1, 1)]

\* slab.scale(...) followed by the rounding of the corners and the new Region
ScaleAndRound(slab, axis, factor, template) ==
    IF ScaleError(slab, ScaleFactors(axis, factor)) THEN [error |-> "ValueError"]
    ELSE LET c == SortedCorners(ScaledCorners(slab, ScaleFactors(axis, factor)))
         IN  make_region(c.pmin, c.pmax, template)

\* create_scaled_region_from_base_region of region_utils.py
region_utils_create_scaled_region(a) ==
    IF a.scale_along_axis \notin DOMAIN AXIS_INDICES THEN [error |-> "KeyError"]
    ELSE IF FaceOf(a.reference_side) = "invalid" THEN [error |-> "ValueError"]
    ELSE
      LET axis == AXIS_INDICES[a.scale_along_axis]
          sc == SlabCorners(a.base_region, a.cell, FaceOf(a.reference_side), axis)
          slab == make_region(AsRats(sc.pmin), AsRats(sc.pmax), a.base_region)
          factor == IF ~a.is_scale_absolute THEN a.scale_amount
                    ELSE RoundNumber(a.scale_amount.n, a.scale_amount.d * a.cell[axis],
                                     ROUND_PRECISION)
      IN  IF slab.error # "" THEN slab
          ELSE ScaleAndRound(slab.region, axis, factor, a.base_region)

\* axis_map of helper_functions.py
axis_map == [x |-> 1, y |-> 2, z |-> 3]

\* create_scaled_region_from_base_region of helper_functions.py; cellsize
\* holds floats, so round(..., cellsize[...]) is a TypeError
helper_functions_create_scaled_region(a) ==
    IF a.scale_along_axis \notin DOMAIN axis_map THEN [error |-> "ValueError"]
    ELSE IF FaceOf(a.reference_side) = "invalid" THEN [error |-> "ValueError"]
    ELSE
      LET axis == axis_map[a.scale_along_axis]
          sc == SlabCorners(a.base_region, a.cell, FaceOf(a.reference_side), axis)
          slab == Region(sc.pmin, sc.pmax, a.base_region.dims, a.base_region.units)
      IN  IF slab.error # "" THEN slab
          ELSE IF a.is_scale_absolute THEN [error |-> "TypeError"]
          ELSE ScaleAndRound(slab.region, axis, a.scale_amount, a.base_region)

----------------------------------------------------------------------------
(* The slice specification: one of the two create_scaled_region_from_base_  *)
(* region functions is called on a base region.                             *)

XYZ == <<"x", "y", "z">>

\* a base on the 1e-9 grid and one 0.1e-9 off it along x
BaseOnGrid == [pmin |-> <<0, 0, 0>>, pmax |-> <<10 * H, 5 * H, 5 * H>>,
               dims |-> XYZ, units |-> <<"m", "m", "m">>]
BaseOffGrid == [pmin |-> <<FineUnits, 0, 2 * H>>,
                pmax |-> <<FineUnits + 8 * H, 4 * H, 6 * H>>,
                dims |-> <<"a", "b", "c">>, units |-> <<"m", "m", "m">>]
Bases == {BaseOnGrid, BaseOffGrid}

\* cells of 1e-9 and 3e-9, and one of 1.2e-9 along x
Cells == {<<H, H, 3 * H>>, <<12 * FineUnits, H, H>>}

\* amounts counted in cells
CellCounts == {Rat(1, 1), Rat(2, 1), Rat(9, 4), Rat(3, 4), Rat(0, 1), Rat(0 - 1, 1)}

Sides == {"max", "min", "positive", "-ve", "left"}
AxisNames == {"x", "y", "z", "w"}

\* the arguments of a call; an absolute amount is a count of cells times the
\* cell along the axis
SliceArgs ==
    {[base_region |-> b, cell |-> c, reference_side |-> s, scale_along_axis |-> ax,
      is_scale_absolute |-> abs,
      scale_amount |-> IF abs /\ ax \in DOMAIN axis_map
                       THEN Rat(k.n * c[axis_map[ax]], k.d) ELSE k] :
        b \in Bases, c \in Cells, s \in Sides, ax \in AxisNames, abs \in BOOLEAN,
        k \in CellCounts}

InitSlice ==
    /\ call = NoCall
    /\ outcome = "none"
    /\ returned = None
    /\ details = <<>>
    /\ mesh = None
    /\ pre = <<>>
    /\ regions = None
    /\ stdout = <<>>
    /\ composite = None

\* new_region = create_scaled_region_from_base_region(...) of region_utils.py;
\* regions holds the base region object as it is after the call
CallRegionUtils ==
    /\ call = NoCall
    /\ \E a \in SliceArgs :
          /\ call' = [fn |-> "region_utils", a |-> a]
          /\ pre' = a.base_region
          /\ regions' = [base_region |-> a.base_region]
          /\ returned' = region_utils_create_scaled_region(a)
    /\ outcome' = "done"
    /\ UNCHANGED <<details, mesh, stdout, composite>>

\* new_region = create_scaled_region_from_base_region(...) of helper_functions.py
CallHelperFunctions ==
    /\ call = NoCall
    /\ \E a \in SliceArgs :
          /\ call' = [fn |-> "helper_functions", a |-> a]
          /\ pre' = a.base_region
          /\ regions' = [base_region |-> a.base_region]
          /\ returned' = helper_functions_create_scaled_region(a)
    /\ outcome' = "done"
    /\ UNCHANGED <<details, mesh, stdout, composite>>

NextSlice == CallRegionUtils \/ CallHelperFunctions

SpecSlice == InitSlice /\ [][NextSlice]_vars

Sliced == call.fn \in {"region_utils", "helper_functions"}

\* a call with an axis and a face the functions accept
SliceValid ==
    /\ Sliced
    /\ call.a.scale_along_axis \in Axes
    /\ FaceOf(call.a.reference_side) # "invalid"

SliceAxis == axis_map[call.a.scale_along_axis]

(* C12: for every valid base region and axis, the call with the positive    *)
(* face, amount 1.0 and is_absolute false returns a region whose extent     *)
(* along the axis equals cellsize[axis].                                    *)
C12_OneCellSlab ==
    (/\ SliceValid
     /\ FaceOf(call.a.reference_side) = "positive"
     /\ ~call.a.is_scale_absolute
     /\ call.a.scale_amount = Rat(1, 1))
    => /\ returned.error = ""
       /\ returned.region.pmax[SliceAxis] - returned.region.pmin[SliceAxis]
             = call.a.cell[SliceAxis]

\* the function called, applied to other arguments
SliceCalled(a) ==
    IF call.fn = "region_utils" THEN region_utils_create_scaled_region(a)
    ELSE helper_functions_create_scaled_region(a)

\* the arguments of the call with the absolute amount k * cellsize[axis]
\* given as the cell count k
AsCellCount ==
    [call.a EXCEPT !.is_scale_absolute = FALSE,
                   !.scale_amount = Reduced(call.a.scale_amount.n,
                                            call.a.scale_amount.d * call.a.cell[SliceAxis])]

(* C13: for every k > 0, the call with is_absolute true and amount          *)
(* k * cellsize[axis] succeeds and returns the region that the call with    *)
(* is_absolute false and amount k returns, in both implementations.         *)
C13_AbsoluteIsCellCount ==
    (SliceValid /\ call.a.is_scale_absolute /\ call.a.scale_amount.n > 0)
    => /\ returned.error = ""
       /\ returned = SliceCalled(AsCellCount)

(* C14: a call changes the geometry along the chosen axis only: for every   *)
(* base, face and amount the result's pmin and pmax on the two other axes   *)
(* equal the base's rounded to 9 decimal places, the result carries the     *)
(* base's dimension labels and units, and the base region is as it was      *)
(* before the call.                                                         *)
C14_OtherAxesKept ==
    (SliceValid /\ returned.error = "") =>
        /\ \A k \in 1..3 \ {SliceAxis} :
              /\ returned.region.pmin[k] = RoundCoord(pre.pmin[k], 1, ROUND_PRECISION)
              /\ returned.region.pmax[k] = RoundCoord(pre.pmax[k], 1, ROUND_PRECISION)
        /\ returned.region.dims = pre.dims
        /\ returned.region.units = pre.units
        /\ regions.base_region = pre

\* a slab stretched along y or z off a base whose x corners are not on the
\* 1e-9 grid
C14_Witness ==
    /\ SliceValid
    /\ returned.error = ""
    /\ SliceAxis # 1
    /\ call.a.scale_amount = Rat(9, 4)
    /\ returned.region.pmin[1] # pre.pmin[1]
    /\ returned.region.pmax[SliceAxis] - returned.region.pmin[SliceAxis]
          > call.a.cell[SliceAxis]

----------------------------------------------------------------------------
(* The profile specification: a gradient or absorbing profile is built and  *)
(* called at a position, a tuple of Python floats.                          *)

\* a region 8e-10 long and one 3e-10 long
WideBox == [pmin |-> <<0, 0, 0>>, pmax |-> <<8 * G, G, G>>]
NarrowBox == [pmin |-> <<G, 0, 0>>, pmax |-> <<4 * G, G, G>>]
ProfileBoxes == {WideBox, NarrowBox}

\* edge_width: none, and 2e-10 and 4e-10
EdgeWidths == {0, 2 * G, 4 * G}

\* (p1, p2): an interval inside the boxes, an empty one, a reversed one and
\* one reaching past the boxes
Intervals == {<<2 * G, 6 * G>>, <<2 * G, 2 * G>>, <<6 * G, 2 * G>>, <<0, 10 * G>>}

\* 0.1
Tenth == Rat(One \div 10, 1)

GradientProfiles ==
    {[cls |-> "LinearGradientAlpha", region |-> r, x0 |-> i[1], x1 |-> i[2],
      alpha_left |-> Tenth, alpha_right |-> Rat(One, 1), np_floats |-> np] :
        r \in ProfileBoxes, i \in Intervals, np \in BOOLEAN}
    \cup {[cls |-> "ExponentialGradientAlpha", region |-> r, x0 |-> i[1], x1 |-> i[2],
           alpha_start |-> Tenth, alpha_end |-> Rat(One, 1), np_floats |-> np] :
             r \in ProfileBoxes, i \in Intervals, np \in BOOLEAN}

AbsorbingProfiles ==
    {[cls |-> c, region |-> r, w |-> w, alpha_bulk |-> Tenth,
      reverse |-> rev, np_floats |-> np] :
        c \in {"AbsorbingLinearAlpha", "AbsorbingExponentialAlpha"},
        r \in ProfileBoxes, w \in EdgeWidths, rev \in BOOLEAN, np \in BOOLEAN}
    \cup {[cls |-> "AbsorbingTanhAlpha", region |-> r, w |-> w, alpha_bulk |-> Tenth,
           k |-> 5, reverse |-> rev, np_floats |-> np] :
             r \in ProfileBoxes, w \in EdgeWidths, rev \in BOOLEAN, np \in BOOLEAN}

\* gradients of a field with x and z components
FieldGradientProfiles ==
    {[cls |-> "LinearGradientField", region |-> r, x0 |-> i[1], x1 |-> i[2],
      field_strength_left |-> <<Tenth, Rat(0, 1), Tenth>>,
      field_strength_right |-> <<Rat(One, 1), Rat(0, 1), Rat(One, 1)>>,
      np_floats |-> np] :
        r \in ProfileBoxes, i \in Intervals, np \in BOOLEAN}

ProfilePositions == {<<x * G, y * G, 0>> : x \in 0..9, y \in {0, 2}}

InitProfile ==
    /\ call = NoCall
    /\ outcome = "none"
    /\ returned = None
    /\ details = <<>>
    /\ mesh = None
    /\ pre = <<>>
    /\ regions = None
    /\ stdout = <<>>
    /\ composite = None

\* profile = Cls(...); profile(pos)
CallProfile ==
    /\ call = NoCall
    /\ \E self \in GradientProfiles \cup AbsorbingProfiles \cup FieldGradientProfiles,
          pos \in ProfilePositions :
          /\ call' = [fn |-> "__call__", self |-> self, pos |-> pos]
          /\ returned' = [result |-> ProfileCall(self, pos)]
    /\ outcome' = "done"
    /\ UNCHANGED <<details, mesh, pre, regions, stdout, composite>>

NextProfile == CallProfile

SpecProfile == InitProfile /\ [][NextProfile]_vars

ProfileCalled(cls) == call.fn = "__call__" /\ call.self.cls = cls

\* the depth of the called position below the nearer end-face along x
Depth ==
    LET dL == call.pos[1] - call.self.region.pmin[1]
        dR == call.self.region.pmax[1] - call.pos[1]
    IN  IF dL <= dR THEN dL ELSE dR

(* C15: a linear absorbing ramp with edge width w and bulk value v_bulk,    *)
(* reverse off, returns 1.0 at either end-face of its region along x,       *)
(* v_bulk at depth exactly w from a face and the linear interpolation       *)
(* 1.0 - (1.0 - v_bulk) * depth / w in between; it returns None at every    *)
(* position deeper than w from both faces and at every position outside     *)
(* the region.                                                              *)
C15_AbsorbingLinearRamp ==
    (ProfileCalled("AbsorbingLinearAlpha") /\ ~call.self.reverse /\ call.self.w > 0) =>
        LET b == call.self.alpha_bulk
            w == call.self.w
        IN  IF ~InRegion(call.pos, call.self.region) \/ Depth > w
            THEN returned.result = NoArg
            ELSE /\ Len(returned.result) = 1
                 /\ RatEq(returned.result[1],
                          Rat(One * b.d * w - (One * b.d - b.n) * Depth, b.d * w))
                 /\ Depth = 0 => RatEq(returned.result[1], Rat(One, 1))
                 /\ Depth = w => RatEq(returned.result[1], b)

(* C16: a linear gradient returns None for every position outside its       *)
(* region or with x < x0 or x > x1; for x0 <= x <= x1 inside the region,    *)
(* t = (x - x0)/(x1 - x0) being defined (x0 < x1), it returns               *)
(* v_left + t * (v_right - v_left), which is v_left at x0 and v_right at    *)
(* x1.                                                                      *)
C16_LinearGradient ==
    ProfileCalled("LinearGradientAlpha") =>
        LET self == call.self
            x == call.pos[1]
        IN  /\ (~InRegion(call.pos, self.region) \/ x < self.x0 \/ x > self.x1)
                  => returned.result = NoArg
            /\ (InRegion(call.pos, self.region) /\ self.x0 <= x /\ x <= self.x1
                  /\ self.x0 < self.x1)
                  => /\ Len(returned.result) = 1
                     /\ returned.result[1].d * (self.x1 - self.x0) # 0
                     /\ (returned.result[1].n * (self.x1 - self.x0)
                           = returned.result[1].d
                               * (self.alpha_left.n * (self.x1 - self.x0)
                                    + (x - self.x0)
                                        * (self.alpha_right.n - self.alpha_left.n)))
                     /\ x = self.x0 => RatEq(returned.result[1], self.alpha_left)
                     /\ x = self.x1 => RatEq(returned.result[1], self.alpha_right)

\* a position strictly between x0 and x1, with a value strictly between the
\* two end values
C16_Witness ==
    /\ ProfileCalled("LinearGradientAlpha")
    /\ call.self.x0 < call.pos[1] /\ call.pos[1] < call.self.x1
    /\ Len(returned.result) = 1
    /\ returned.result[1].n > call.self.alpha_left.n * returned.result[1].d
    /\ returned.result[1].n < call.self.alpha_right.n * returned.result[1].d

(* C17: evaluating a profile never raises an error, for any position: every *)
(* gradient and absorbing-ramp profile returns a value or None, also when   *)
(* built with x0 = x1 or with edge width 0 and called at a position inside  *)
(* its region on that boundary.                                             *)
C17_ProfilesNeverRaise ==
    (call.fn = "__call__") => ~IsRaised(returned.result)

----------------------------------------------------------------------------
(* AlphaABC, the legacy evaluator.  Positions and corners are in metres     *)
(* (fine units); xn and the system bounds are the same numbers times 1e9.   *)

\* coord * 1e9 compared with a corner: lo <= x * 10^9 and x * 10^9 <= hi,
\* for x, lo and hi counted in the same unit
TimesE9Within(x, lo, hi) ==
    /\ x >= 0 - FloorDiv(0 - lo, 10 ^ 9)
    /\ x <= FloorDiv(hi, 10 ^ 9)

\* xn in region, a number tested against a df.Region: discretisedfield
\* compares it with every corner coordinate, takes it for no point of the
\* region, or rejects it, depending on its version (scalar_in).  The corners
\* are the numbers the caller built the regions from: metres, as in
\* system_prop, or nanometres, as xn is (region_units)
ScalarInRegion(self, x, region) ==
    CASE self.scalar_in = "broadcast" ->
             [error |-> "",
              val |-> \A k \in 1..3 :
                         IF self.region_units = "m"
                         THEN TimesE9Within(x, region.pmin[k], region.pmax[k])
                         ELSE region.pmin[k] <= x /\ x <= region.pmax[k]]
      [] self.scalar_in = "never" -> [error |-> "", val |-> FALSE]
      [] self.scalar_in = "rejected" -> [error |-> "TypeError"]

\* int(val / region.multiplier) of the x edge: the edge counted in
\* nanometres (multiplier 1e-9 for corners in metres, 1 for nanometres)
WidthX(region) == (region.pmax[1] - region.pmin[1]) \div H

\* np.exp(((xmin - xn) * np.log(alpha_bulk)) / (xmin - xa)): alpha_bulk to
\* the power (xmin - xn) / (xmin - xa), kept as the expression it is; all
\* three numbers are in nanometres
ExpRamp(self, xmin, xn, xa) ==
    IF xmin = xa THEN NaN
    ELSE IF xmin - xa > 0
    THEN [alpha_bulk |-> self.alpha_bulk, power |-> Reduced(xmin - xn, xmin - xa)]
    ELSE [alpha_bulk |-> self.alpha_bulk, power |-> Reduced(xn - xmin, xa - xmin)]

\* AlphaABC.__call__
AlphaABC(self, pos) ==
    LET driven == ScalarInRegion(self, pos[1], self.system_subregions.driven)
        lhs == ScalarInRegion(self, pos[1], self.system_subregions.dampingLhs)
        rhs == ScalarInRegion(self, pos[1], self.system_subregions.dampingRhs)
        xmin == self.system_prop.p1[1]
        xmax == self.system_prop.p2[1]
        width == H * WidthX(self.system_subregions.dampingLhs)
        xa == xmin + width
        xb == xmax - width
    IN  IF driven.error # "" THEN [error |-> driven.error]
        ELSE IF driven.val THEN [error |-> "", val |-> self.alpha_driven]
        ELSE IF ~lhs.val \/ ~rhs.val THEN [error |-> "", val |-> self.alpha_bulk]
        ELSE IF pos[1] < xa THEN [error |-> "", val |-> ExpRamp(self, xmin, pos[1], xa)]
        ELSE IF pos[1] > xb THEN [error |-> "", val |-> ExpRamp(self, xmax, pos[1], xb)]
        ELSE [error |-> "", val |-> self.alpha_bulk]

\* A 10 nm long domain with a 2 nm absorbing region at either end and the
\* driven region in the middle
Domain == [p1 |-> <<0, 0, 0>>, p2 |-> <<10 * H, H, H>>]
EndsLayout ==
    [driven |-> [pmin |-> <<4 * H, 0, 0>>, pmax |-> <<6 * H, H, H>>],
     dampingLhs |-> [pmin |-> <<0, 0, 0>>, pmax |-> <<2 * H, H, H>>],
     dampingRhs |-> [pmin |-> <<8 * H, 0, 0>>, pmax |-> <<10 * H, H, H>>]]
\* the same with dampingRhs drawn over the whole domain
OverlapLayout ==
    [driven |-> [pmin |-> <<4 * H, 0, 0>>, pmax |-> <<6 * H, H, H>>],
     dampingLhs |-> [pmin |-> <<0, 0, 0>>, pmax |-> <<2 * H, H, H>>],
     dampingRhs |-> [pmin |-> <<0, 0, 0>>, pmax |-> <<10 * H, H, H>>]]
\* a domain centred on the origin, the driven region around the origin
CentredDomain == [p1 |-> <<0 - 5 * H, 0, 0>>, p2 |-> <<5 * H, H, H>>]
CentredLayout ==
    [driven |-> [pmin |-> <<0 - H, 0, 0>>, pmax |-> <<H, H, H>>],
     dampingLhs |-> [pmin |-> <<0 - 5 * H, 0, 0>>, pmax |-> <<0 - 3 * H, H, H>>],
     dampingRhs |-> [pmin |-> <<3 * H, 0, 0>>, pmax |-> <<5 * H, H, H>>]]
ScalarIn == {"broadcast", "never", "rejected"}
RegionUnits == {"m", "nm"}
BulkValues == {Rat(One \div 100, 1), Rat(One \div 1000, 1)}
ABCs ==
    [system_prop : {Domain}, system_subregions : {EndsLayout, OverlapLayout},
     scalar_in : ScalarIn, region_units : RegionUnits, alpha_bulk : BulkValues,
     alpha_driven : {Rat(One \div 2, 1)}]
    \cup
    [system_prop : {CentredDomain}, system_subregions : {CentredLayout},
     scalar_in : ScalarIn, region_units : RegionUnits, alpha_bulk : BulkValues,
     alpha_driven : {Rat(One \div 2, 1)}]
ABCPositions ==
    {<<x, y, 0>> : x \in {k * H : k \in (0 - 5)..10} \cup {H \div 2, (19 * H) \div 2},
                   y \in {0, H \div 2}}

InitABC ==
    /\ call = NoCall
    /\ outcome = "none"
    /\ returned = None
    /\ details = <<>>
    /\ mesh = None
    /\ pre = <<>>
    /\ regions = None
    /\ stdout = <<>>
    /\ composite = None

\* alpha = AlphaABC(...); alpha(pos)
CallAlphaABC ==
    /\ call = NoCall
    /\ \E self \in ABCs, pos \in ABCPositions :
          /\ call' = [fn |-> "AlphaABC.__call__", self |-> self, pos |-> pos]
          /\ returned' = [result |-> AlphaABC(self, pos)]
    /\ outcome' = "done"
    /\ UNCHANGED <<details, mesh, pre, regions, stdout, composite>>

NextABC == CallAlphaABC

SpecABC == InitABC /\ [][NextABC]_vars

ABCCalled == call.fn = "AlphaABC.__call__"

\* C18: AlphaABC returns alpha_driven for a position in the driven region;
\* for a position outside it that lies in dampingLhs or dampingRhs and
\* nearer to the domain's outer face than the absorbing width, the
\* exponential ramp computed against that face; for every other position
\* alpha_bulk.
C18_AlphaABC ==
    ABCCalled =>
        LET self == call.self
            pos == call.pos
            sub == self.system_subregions
            xmin == self.system_prop.p1[1]
            xmax == self.system_prop.p2[1]
            width == H * WidthX(sub.dampingLhs)
            damped == InRegion(pos, sub.dampingLhs) \/ InRegion(pos, sub.dampingRhs)
        IN  returned.result =
               IF InRegion(pos, sub.driven)
               THEN [error |-> "", val |-> self.alpha_driven]
               ELSE IF damped /\ pos[1] - xmin < width
               THEN [error |-> "",
                     val |-> [alpha_bulk |-> self.alpha_bulk,
                              power |-> Reduced(pos[1] - xmin, width)]]
               ELSE IF damped /\ xmax - pos[1] < width
               THEN [error |-> "",
                     val |-> [alpha_bulk |-> self.alpha_bulk,
                              power |-> Reduced(xmax - pos[1], width)]]
               ELSE [error |-> "", val |-> self.alpha_bulk]

----------------------------------------------------------------------------
(* Claims about what a subdivide call leaves in the caller's container *)

\* explicit offsets were given and some offset is not above the one before it
OffsetsNotIncreasing ==
    /\ Subdivided
    /\ call.partition_distances # NoArg
    /\ LET pd == call.partition_distances[1]
       IN  \E k \in 1..(Len(pd) - 1) : pd[k] >= pd[k + 1]

\* C19: subdivide called with explicit partition offsets that are not
\* strictly increasing fails with an error, and after the failure the
\* region container holds exactly the regions it held before the call.
C19_UnorderedOffsetsRejected ==
    OffsetsNotIncreasing => /\ outcome \notin {"ok", "none"}
                            /\ details = pre

\* the regions the caller holds before and after the call, by name: the
\* container, or the subregions of the mesh passed and of the mesh returned
HeldBefore ==
    IF call.fn = "subdivide_region"
    THEN [k \in DictKeys(pre) |-> DictGet(pre, k)]
    ELSE mesh.subregions
HeldAfter ==
    IF call.fn = "subdivide_region"
    THEN [k \in DictKeys(details) |-> DictGet(details, k)]
    ELSE returned.new_mesh.subregions

\* the names the pieces of the call are stored under
PieceNames == {CallPieceName(i) : i \in 0..(CallN - 1)}

\* C20: when subdivide succeeds with remove_parent set, the region that was
\* subdivided is no longer in the container and every other region that was
\* in it before the call is still there with its region unchanged; with
\* remove_parent unset the parent remains as well.
C20_OnlyParentRemoved ==
    (Subdivided /\ outcome = "ok") =>
        \A k \in DOMAIN HeldBefore :
            IF call.remove_parent /\ HeldBefore[k] = CallParent
            THEN k \in DOMAIN HeldAfter => k \in PieceNames
            ELSE k \in DOMAIN HeldAfter /\ HeldAfter[k] = HeldBefore[k]

----------------------------------------------------------------------------
(* Further claims about the composites *)

\* the value is the number zero, or a vector of zeros
IsZeroValue(val) ==
    IF composite.cls = "CompositeAlpha" THEN val.n = 0
    ELSE \A k \in 1..3 : val[k].n = 0

\* the profiles of the composite that return zero at the position called
ZeroMatches == {i \in Matches :
                   IsZeroValue(ProfileCall(composite.profiles[i], call.pos)[1])}

\* C21: in a composite, a profile that returns the number zero (or a zero
\* vector) at a position counts as a match: when it is the first profile
\* that returns a value there, the composite returns that zero and neither
\* a later profile's value nor the bulk value.
C21_ZeroIsAMatch ==
    CompositeCalled =>
        \A i \in ZeroMatches :
            (\A j \in Matches : i <= j) =>
                /\ returned.by = i
                /\ IsZeroValue(returned.val)
                /\ returned.val = ProfileCall(composite.profiles[i], call.pos)[1]

\* the first profile returns zero where a later one returns another value
C21_Witness ==
    /\ CompositeCalled
    /\ 1 \in ZeroMatches
    /\ 2 \in Matches \ ZeroMatches
    /\ returned.by = 1
    /\ ~IsZeroValue(StoredBulk)

----------------------------------------------------------------------------
(* Composites over any profiles the classes construct, the linear gradient  *)
(* over an empty interval (p1 == p2) included                               *)

EmptyIntervalProfiles ==
    {[cls |-> "LinearGradientAlpha", region |-> BoxLeft, x0 |-> G, x1 |-> G,
      alpha_left |-> Rat(2, 1), alpha_right |-> Rat(One, 1), np_floats |-> b] :
        b \in BOOLEAN}

\* alpha = CompositeAlpha(profiles, alpha_bulk), one of the profiles a
\* gradient over an empty interval
NewCompositeAlphaAny ==
    /\ composite = None
    /\ \E profiles \in ProfileLists(AlphaProfiles \cup EmptyIntervalProfiles) :
          /\ \E i \in 1..Len(profiles) : profiles[i] \in EmptyIntervalProfiles
          /\ composite' = [cls |-> "CompositeAlpha", profiles |-> profiles,
                           alpha_bulk |-> Rat(7, 1)]
    /\ UNCHANGED <<details, mesh, call, pre, outcome, returned, regions, stdout>>

NextCompositeAny ==
    \/ NewCompositeAlpha
    \/ NewCompositeAlphaAny
    \/ CallCompositeAlpha

SpecCompositeAny == InitComposite /\ [][NextCompositeAny]_vars

\* C22: evaluating a composite at any position always yields a defined
\* value, never None, for every profile list, the empty list and the lists
\* whose profiles all return None at the position included.
C22_AlwaysAValue ==
    CompositeCalled => /\ "val" \in DOMAIN returned
                       /\ returned.val # NoArg
                       /\ returned.val # None

----------------------------------------------------------------------------
(* Further claims about subdivide *)

\* the caller asked for the discretisation check: subdivide_region_new has
\* no switch for it
DiscretisationRequired ==
    call.fn = "subdivide_region_new" \/ call.compatible_discretisation

\* C23: with the discretisation check required, it is applied to every
\* produced piece: subdivide never returns successfully with a piece whose
\* length along the axis is not an integer multiple, within tolerance, of
\* the parent's cell size on that axis, whatever cell information the
\* parent region object carries.
C23_CheckNeverSkipped ==
    (SubdivideSucceeded /\ DiscretisationRequired) =>
        /\ CheckApplies
        /\ \A i \in 0..(CallN - 1) :
              WithinTolerance(CallPiece(i).pmax[CallIdx] - CallPiece(i).pmin[CallIdx],
                              CallCell, call.discretisation_tol)

----------------------------------------------------------------------------
(* Further claims about the absorbing ramps *)

\* a call of a linear or exponential absorbing ramp with a positive edge
\* width, at a position of its region no deeper than the width
RampCalled ==
    /\ call.fn = "__call__"
    /\ call.self.cls \in {"AbsorbingLinearAlpha", "AbsorbingExponentialAlpha"}
    /\ call.self.w > 0
    /\ InRegion(call.pos, call.self.region)
    /\ Depth <= call.self.w

\* the value of the shape of the called ramp, reverse off, at depth d
ForwardShape(d) ==
    LET forward == [call.self EXCEPT !.reverse = FALSE]
    IN  IF call.self.cls = "AbsorbingLinearAlpha" THEN EdgeRamp(forward, d)
        ELSE EdgeExp(forward, d)

\* v is the number 1.0, v is alpha_bulk
IsOne(v) ==
    IF call.self.cls = "AbsorbingLinearAlpha" THEN RatEq(v, Rat(One, 1))
    ELSE v.power = Rat(0, 1)
IsBulk(v) ==
    IF call.self.cls = "AbsorbingLinearAlpha" THEN RatEq(v, call.self.alpha_bulk)
    ELSE v.power = Rat(1, 1)

\* v and u are the same number
SameValue(v, u) ==
    IF call.self.cls = "AbsorbingLinearAlpha" THEN RatEq(v, u) ELSE v = u

\* C24: with reverse set, a linear or exponential absorbing ramp swaps its
\* endpoints: the value at either end-face is v_bulk, the value at depth
\* exactly w is 1.0, and at every depth d in [0, w] the value is the one
\* the ramp without reverse has at depth w - d.
C24_ReverseSwapsEndpoints ==
    (RampCalled /\ call.self.reverse) =>
        /\ Len(returned.result) = 1
        /\ SameValue(returned.result[1], ForwardShape(call.self.w - Depth))
        /\ Depth = 0 => IsBulk(returned.result[1])
        /\ Depth = call.self.w => IsOne(returned.result[1])

\* the value of the shape of the called absorbing ramp at depth d
ShapeAt(d) ==
    CASE call.self.cls = "AbsorbingLinearAlpha" -> EdgeRamp(call.self, d)
      [] call.self.cls = "AbsorbingExponentialAlpha" -> EdgeExp(call.self, d)
      [] call.self.cls = "AbsorbingTanhAlpha" -> TanhMix(call.self, d)

\* C30: for every position inside its region, the result of an absorbing
\* ramp (linear, exponential or tanh) depends only on the distance d to the
\* nearer of the two end-faces along x, d = min(x - pmin, pmax - x): it is
\* the shape's value at depth d when d <= w and None otherwise, also in a
\* region narrower than 2w, where a position is within w of both faces.
C30_NearerFaceDecides ==
    (/\ call.fn = "__call__"
     /\ call.self.cls \in {"AbsorbingLinearAlpha", "AbsorbingExponentialAlpha",
                           "AbsorbingTanhAlpha"}
     /\ call.self.w > 0
     /\ InRegion(call.pos, call.self.region)) =>
        IF Depth <= call.self.w
        THEN /\ Len(returned.result) = 1
             /\ IF call.self.cls = "AbsorbingLinearAlpha"
                THEN RatEq(returned.result[1], ShapeAt(Depth))
                ELSE returned.result[1] = ShapeAt(Depth)
        ELSE returned.result = NoArg

----------------------------------------------------------------------------
(* Further claims about create_scaled_region_from_base_region *)

\* C25: the function does not validate the amount: for an amount <= 0 it
\* raises no error of its own and either returns a region or fails only
\* through the construction of the Region (ValueError for an edge of length
\* zero); no amount > 0 is ever rejected.
C25_AmountNotValidated ==
    SliceValid =>
        /\ call.a.scale_amount.n > 0 => returned.error = ""
        /\ call.a.scale_amount.n <= 0 => returned.error \in {"", "ValueError"}

----------------------------------------------------------------------------
(* The names of the pieces *)

\* the root the pieces of the call are named after
CallRoot == IF call.fn = "subdivide_region" THEN NameRoot(call) ELSE call.name_root

\* root followed by the index i, for i = 0..N-1
ConventionNames == {FName(CallRoot, "", i) : i \in 0..(CallN - 1)}

\* C26: subdivide names its N pieces by one convention, root followed by the
\* index i for i = 0..N-1, which gives exactly N distinct names and is the
\* same in every subdivide implementation; the piece named in a
\* discretisation failure is named as it would have been stored.
C26_OneNamingConvention ==
    /\ SubdivideSucceeded =>
          /\ DictKeys(returned.value_dict) = ConventionNames
          /\ Cardinality(DictKeys(returned.value_dict)) = CallN
          /\ \A i \in 0..(CallN - 1) : CallPieceName(i) \in DOMAIN HeldAfter
    /\ AbortedByCheck =>
          /\ "failed" \in DOMAIN returned
          /\ returned.failed \in ConventionNames

----------------------------------------------------------------------------
(* The gradient of a field *)

\* C27: the vector-valued linear gradient interpolates the vector: inside
\* its interval every component i of the result equals
\* left[i] + t * (right[i] - left[i]) with t = (x - x0)/(x1 - x0), and
\* outside its region or its interval the result is None.
C27_FieldGradientAllComponents ==
    ProfileCalled("LinearGradientField") =>
        LET self == call.self
            x == call.pos[1]
        IN  /\ (~InRegion(call.pos, self.region) \/ x < self.x0 \/ x > self.x1)
                  => returned.result = NoArg
            /\ (InRegion(call.pos, self.region) /\ self.x0 <= x /\ x <= self.x1
                  /\ self.x0 < self.x1)
                  => /\ Len(returned.result) = 1
                     /\ \A k \in 1..3 :
                           RatEq(returned.result[1][k],
                                 Ramp(x, self.x0, self.x1, self.field_strength_left[k],
                                      self.field_strength_right[k]))

\* C28: for every base region, axis, face and amount > 0, the region
\* returned lies outside the base and touches it on the chosen face: for the
\* positive face its pmin[axis] equals base.pmax[axis], for the negative
\* face its pmax[axis] equals base.pmin[axis].
C28_TouchesChosenFace ==
    (SliceValid /\ call.a.scale_amount.n > 0 /\ returned.error = "") =>
        IF FaceOf(call.a.reference_side) = "positive"
        THEN returned.region.pmin[SliceAxis] = pre.pmax[SliceAxis]
        ELSE returned.region.pmax[SliceAxis] = pre.pmin[SliceAxis]

----------------------------------------------------------------------------
(* MyRegions as a container of named subregions: attribute reads,           *)
(* add_subregion and delete_subregion in any order.  details is _details;   *)
(* pre holds the names added by add_subregion and not deleted since.        *)

\* the name of the container, MyRegions("regions")
ContainerName == Key("regions")

\* region_name.startswith("_")
StartsWithUnderscore(region_name) == region_name \in {Key("_hidden")}

\* SubRegion(name=region_name): no corners, so no Region is created
EmptySubRegion(region_name) == SubRegionRec(region_name, None, None, FALSE, <<>>)

\* MyRegions.__getattr__ on _details = det, for a name that is no attribute
\* of the class or the instance
getattr(det, region_name) ==
    IF StartsWithUnderscore(region_name)
    THEN [error |-> "AttributeError", details |-> det]
    ELSE IF region_name = ContainerName
    THEN [error |-> "", details |-> det, val |-> ContainerName]
    ELSE IF ~DictHas(det, region_name)
    THEN [error |-> "",
          details |-> DictSet(det, region_name, EmptySubRegion(region_name)),
          val |-> EmptySubRegion(region_name)]
    ELSE [error |-> "", details |-> det, val |-> DictGet(det, region_name)]

\* the names read, added and deleted
ContainerNames == {Key("x"), Key("y"), Key("_hidden"), ContainerName}

InitContainer ==
    /\ details = <<>>
    /\ pre = {}
    /\ call = NoCall
    /\ outcome = "none"
    /\ returned = None
    /\ mesh = None
    /\ regions = None
    /\ stdout = <<>>
    /\ composite = None

\* regions.<region_name>
ReadAttribute ==
    /\ \E region_name \in ContainerNames :
          LET r == getattr(details, region_name)
          IN  /\ call' = [fn |-> "__getattr__", name |-> region_name, added |-> pre]
              /\ details' = r.details
              /\ outcome' = IF r.error = "" THEN "ok" ELSE r.error
    /\ UNCHANGED <<pre, returned, mesh, regions, stdout, composite>>

\* regions.add_subregion(new_subregion)
AddToContainer ==
    /\ \E new_subregion \in {XA, XB, YA} :
          LET r == add_subregion(details, new_subregion)
          IN  /\ call' = [fn |-> "add_subregion", name |-> new_subregion.name,
                          added |-> pre]
              /\ details' = r.details
              /\ outcome' = IF r.error = "" THEN "ok" ELSE r.error
              /\ pre' = IF r.error = "" THEN pre \cup {new_subregion.name} ELSE pre
    /\ UNCHANGED <<returned, mesh, regions, stdout, composite>>

\* regions.delete_subregion(region_name)
DeleteFromContainer ==
    /\ \E region_name \in ContainerNames :
          LET r == delete_subregion(details, region_name)
          IN  /\ call' = [fn |-> "delete_subregion", name |-> region_name, added |-> pre]
              /\ details' = r.details
              /\ outcome' = IF r.error = "" THEN "ok" ELSE r.error
              /\ pre' = IF r.error = "" THEN pre \ {region_name} ELSE pre
    /\ UNCHANGED <<returned, mesh, regions, stdout, composite>>

NextContainer == ReadAttribute \/ AddToContainer \/ DeleteFromContainer

SpecContainer == InitContainer /\ [][NextContainer]_vars

\* C29: after any sequence of attribute reads, add_subregion and
\* delete_subregion calls, add_subregion(s) raises KeyError exactly when a
\* subregion named s.name was added before and not deleted since, and
\* delete_subregion(n) raises KeyError exactly when n is not currently
\* added: reading a name by attribute access does not change which later
\* add or delete calls succeed.
C29_ReadsDoNotAdd ==
    /\ call.fn = "add_subregion" => (outcome = "KeyError" <=> call.name \in call.added)
    /\ call.fn = "delete_subregion" => (outcome = "KeyError" <=> call.name \notin call.added)

====
